---- MODULE Spec2Model ----
(***************************************************************************)
(* Model of the ISRU plant simulator: the resource/transform algebra       *)
(* (abstract_resource.py, abstract_process.py), the boundary and           *)
(* multiplexing nodes (complex_process.py) and the two-pass scheduler      *)
(* ISRUPlant (plant_model.py).                                             *)
(*                                                                         *)
(* Numbers.  The program computes with Python floats.  The model computes  *)
(* with exact rationals <<n, d>> (d > 0, lowest terms), so it shows what   *)
(* the formulas of the program compute, not the rounding of IEEE doubles.  *)
(* <<0, 0>> stands for Python's None where a number is optional.           *)
(*                                                                         *)
(* Dictionaries.  Python dicts keep insertion order and the program's      *)
(* loops depend on it, so a dict is a sequence of [k, v] entries.           *)
(*                                                                         *)
(* Phases.  Only SOLID and LIQUID resources occur in the modelled plants;  *)
(* the gas branch of Compress/Heat (exp/log) is outside the model.         *)
(***************************************************************************)
EXTENDS Integers, Sequences, FiniteSets, TLC

VARIABLES
  defs,    \* model_definitions handed to ISRUPlant(): order, From, Model
  pc,      \* "new" | "dead" | "idle" | "setup" | "run" | "unit"
  links,   \* per node: From / To after construction
  chain,   \* per node scratch: Ready, Run, Resource_Request, Output_Resources, Energy_*
  model,   \* per node mutable model fields (output_rate, request_mass, Contents, ...)
  plant,   \* ISRUPlant fields (projected_energy, actual_energy, overages, ...)
  call,    \* the setup()/run() call in progress: dt, process_outstanding, loop position,
           \* the nodes called so far and what the last node run was handed
  last,    \* the last call that returned: op, status, arguments, the nodes it called
  hist,    \* outcome of the two most recent setup() calls, and of the run() before the last
  u        \* a single Process/Multiplex/depot exercised on its own (SpecUnit)

vars == <<defs, pc, links, chain, model, plant, call, last, hist, u>>

(***************************************************************************)
(* Bounds of the model (not program constants).                            *)
(***************************************************************************)
MaxRequestUnits == 2   \* setup() requests 0, 100, ... 100*(MaxRequestUnits-1) kg... per depot
MaxUnitMass     == 4   \* unit-level masses are multiples of 50 kg up to 50*MaxUnitMass
MaxCalls        == 4   \* setup()/run() calls made on one plant
MaxAsks         == 2   \* request(dt, None) calls made on one node on its own

(***************************************************************************)
(* Exact rational arithmetic.                                              *)
(***************************************************************************)
RECURSIVE GCD(_, _)
GCD(a, b) == IF b = 0 THEN a ELSE GCD(b, a % b)

Abs(x) == IF x < 0 THEN -x ELSE x

Frac(n, d) ==
  LET s == IF d < 0 THEN -1 ELSE 1
      g == GCD(Abs(n), Abs(d))
  IN  <<(s * n) \div g, (s * d) \div g>>

Q(n) == <<n, 1>>
NoneQ == <<0, 0>>
IsNone(a) == a[2] = 0

Add(a, b) == Frac(a[1] * b[2] + b[1] * a[2], a[2] * b[2])
Sub(a, b) == Frac(a[1] * b[2] - b[1] * a[2], a[2] * b[2])
Mul(a, b) == Frac(a[1] * b[1], a[2] * b[2])
Div(a, b) == Frac(a[1] * b[2], a[2] * b[1])
IsZero(a) == a[1] = 0
Le(a, b) == a[1] * b[2] <= b[1] * a[2]
Lt(a, b) == a[1] * b[2] < b[1] * a[2]
MaxQ(a, b) == IF Lt(a, b) THEN b ELSE a
MinQ(a, b) == IF Lt(b, a) THEN b ELSE a
AbsQ(a) == <<Abs(a[1]), a[2]>>
Ceil(a) == -((-a[1]) \div a[2])

\* |x - y| <= tol * |y|
Within(x, y, tol) == Le(AbsQ(Sub(x, y)), Mul(tol, AbsQ(y)))

(***************************************************************************)
(* Ordered dictionaries.                                                   *)
(***************************************************************************)
Keys(d) == {d[i].k : i \in 1..Len(d)}
Has(d, key) == \E i \in 1..Len(d) : d[i].k = key
Get(d, key) == d[CHOOSE i \in 1..Len(d) : d[i].k = key].v
Put(d, key, val) ==
  IF Has(d, key)
  THEN [i \in 1..Len(d) |-> IF d[i].k = key THEN [k |-> key, v |-> val] ELSE d[i]]
  ELSE Append(d, [k |-> key, v |-> val])
\* a union in which the entry already present wins
MergeKeepsFirst(a, b) == a \o SelectSeq(b, LAMBDA e : ~Has(a, e.k))
RECURSIVE Merge(_, _)
Merge(a, b) == IF b = <<>> THEN a ELSE Merge(Put(a, b[1].k, b[1].v), Tail(b))   \* a | b
Entry(key, val) == [k |-> key, v |-> val]
RECURSIVE Without(_, _)
Without(d, ks) ==
  IF d = <<>> THEN <<>>
  ELSE IF d[1].k \in ks THEN Without(Tail(d), ks) ELSE <<d[1]>> \o Without(Tail(d), ks)
Only(d, ks) == Without(d, Keys(d) \ ks)
RECURSIVE SumMass(_)
SumMass(d) == IF d = <<>> THEN Q(0) ELSE Add(d[1].v.Mass, SumMass(Tail(d)))

\* An optional dict or list: Python None, or the container
Absent == [some |-> FALSE, items |-> <<>>]
Present(c) == [some |-> TRUE, items |-> c]
InSeq(x, s) == \E i \in 1..Len(s) : s[i] = x

(***************************************************************************)
(* Physical constants and the resource catalogue (mars.py, resources.py).   *)
(***************************************************************************)
MarsTemperature == Frac(20815, 100)     \* -65 + 273.15 K
MarsPressure == Q(610)                  \* Pa
ZERO_TOL == Frac(1, 100000)
COMPRESSOR_EFFICIENCY == Frac(8, 10)

\* self.Density of each resource class
Density(kind) ==
  CASE kind = "Water" -> <<Entry("SOLID", Q(916)), Entry("LIQUID", Q(1000))>>
    [] kind = "Mars_Basaltic_Glass" -> <<Entry("SOLID", Q(1300)), Entry("LIQUID", Q(1300))>>
    [] OTHER -> <<Entry("SOLID", Q(1300))>>

\* self.Cp of each resource class
Cp(kind) == IF kind = "Water" THEN Q(2050) ELSE Q(620)

\* Does the class constructor store arg_press?  The regolith family does not,
\* so its Pressure keeps the 0 set by Resource.__init__.
SetsPressure(kind) == kind = "Water"

\* Molar_Mass is 0 unless the class sets it
HasMolarMass(kind) == kind = "Water"

\* Resource.setMass: the checks that decide whether the volume can be derived
CanSetMass(kind, phase, temp, press) ==
  IF phase \in {"SOLID", "LIQUID"}
  THEN Has(Density(kind), phase)
  ELSE IF IsNone(press) \/ IsNone(temp) THEN TRUE
       ELSE ~IsZero(press) /\ HasMolarMass(kind) /\ phase = "GAS"

\* Resource.Volume as setMass derives it for SOLID / LIQUID
Volume(kind, r) == Mul(r.Mass, Get(Density(kind), r.Phase))

\* newClass(mass, temp, press, phase): a resource class constructor
New(kind, mass, temp, press, phase) ==
  LET p == IF SetsPressure(kind) THEN press ELSE Q(0)
  IN  [ok |-> CanSetMass(kind, phase, temp, p),
       r  |-> [Mass |-> mass, Phase |-> phase, Temperature |-> temp, Pressure |-> p]]

\* resource.setMass(mass)
SetMass(kind, r, mass) ==
  [ok |-> CanSetMass(kind, r.Phase, r.Temperature, r.Pressure),
   r  |-> [r EXCEPT !.Mass = mass]]

\* Compress(target_pressure, input_resource): energy and the resource afterwards
Compress(target, kind, r) ==
  IF r.Phase = "SOLID" THEN [energy |-> Q(0), r |-> r]
  ELSE [energy |-> Div(Mul(Sub(target, r.Pressure), Volume(kind, r)), COMPRESSOR_EFFICIENCY),
        r |-> [r EXCEPT !.Pressure = target]]

\* Heat(target_temperature, input_resource)
Heat(target, kind, r) ==
  [energy |-> Mul(Mul(r.Mass, Sub(target, r.Temperature)), Cp(kind)),
   r |-> [r EXCEPT !.Temperature = target]]

(***************************************************************************)
(* Node configurations (what the constructors fix) and mutable model state *)
(***************************************************************************)
Component(name, phase, rate) == [Name |-> name, Phase |-> phase, Rate |-> rate]

\* Transform.inputs / outputs are dicts keyed by component name
RECURSIVE ComponentDict(_)
ComponentDict(cs) ==
  IF cs = <<>> THEN <<>>
  ELSE Merge(<<Entry(cs[1].Name, cs[1])>>, ComponentDict(Tail(cs)))

\* Transform.get_input_masses / get_output_masses
StepMasses(comps, dt) == [i \in 1..Len(comps) |-> Entry(comps[i].k, Mul(dt, comps[i].v.Rate))]

ProcessCfg(type, filter, ins, outs, power, temp, press) ==
  [Type |-> type, Filter |-> filter,
   Inputs |-> ComponentDict(ins), Outputs |-> ComponentDict(outs), Power |-> power,
   Temperature |-> temp, Pressure |-> press,
   Fractions |-> <<>>, Phase |-> "SOLID", Mass0 |-> NoneQ]

DepositCfg(fractions, phase, temp, press) ==
  [Type |-> "Deposit", Filter |-> FALSE,
   Inputs |-> <<>>, Outputs |-> <<>>, Power |-> Q(0),
   Temperature |-> temp, Pressure |-> press,
   Fractions |-> fractions, Phase |-> phase, Mass0 |-> NoneQ]

DepotCfg(fractions, phase, temp, press, mass) ==
  [Type |-> "Depot", Filter |-> FALSE,
   Inputs |-> <<>>, Outputs |-> <<>>, Power |-> Q(0),
   Temperature |-> temp, Pressure |-> press,
   Fractions |-> fractions, Phase |-> phase, Mass0 |-> mass]

KeyList(d) == [i \in 1..Len(d) |-> d[i].k]

\* model.Whitelist: set by setTransform, by ResourceDepot.__init__, else None
Whitelist(cfg) ==
  CASE cfg.Type \in {"Process", "Multiplex"} -> Present(KeyList(cfg.Inputs))
    [] cfg.Type = "Depot" -> Present(KeyList(cfg.Fractions))
    [] OTHER -> Absent

\* model.RequestWhitelist: set by setTransform, by ResourceDeposit.__init__, else None
RequestWhitelist(cfg) ==
  CASE cfg.Type \in {"Process", "Multiplex"} -> Present(KeyList(cfg.Outputs))
    [] cfg.Type = "Deposit" -> Present(KeyList(cfg.Fractions))
    [] OTHER -> Absent

\* The fields a model object carries after its constructor
InitModel(cfg) ==
  [energy_demand |-> Q(0), duty_cycle |-> Q(0), upstream_energy_demand |-> Q(0),
   num_mocks |-> 1, output_rate |-> NoneQ, request_mass |-> cfg.Mass0,
   Contents |-> Absent, Overage |-> Absent]

(***************************************************************************)
(* Process (abstract_process.py)                                           *)
(***************************************************************************)
\* lines 56-63 for one resource: the pressure cannot be brought to the node's
PressureFails(cfg, r) ==
  ~IsNone(cfg.Pressure) /\
    (IsNone(r.Pressure) \/ (Lt(cfg.Pressure, r.Pressure) /\ Lt(cfg.Pressure, MarsPressure)))

\* lines 56-63 for one resource: compression energy and the resource afterwards
ConfigurePressure(cfg, kind, r) ==
  IF IsNone(cfg.Pressure) \/ PressureFails(cfg, r) THEN [energy |-> Q(0), r |-> r]
  ELSE IF Lt(r.Pressure, cfg.Pressure) THEN Compress(cfg.Pressure, kind, r)
  ELSE IF Lt(cfg.Pressure, r.Pressure)
       THEN [energy |-> Q(0), r |-> [r EXCEPT !.Pressure = cfg.Pressure]]
  ELSE [energy |-> Q(0), r |-> r]

\* lines 64-71 for one resource: the temperature cannot be brought to the node's
TemperatureFails(cfg, r) ==
  ~IsNone(cfg.Temperature) /\
    (IsNone(r.Temperature) \/
     (Lt(cfg.Temperature, r.Temperature) /\ Lt(cfg.Temperature, MarsTemperature)))

\* lines 64-71 for one resource: heating energy and the resource afterwards
ConfigureTemperature(cfg, kind, r) ==
  IF IsNone(cfg.Temperature) \/ TemperatureFails(cfg, r) THEN [energy |-> Q(0), r |-> r]
  ELSE IF Lt(r.Temperature, cfg.Temperature) THEN Heat(cfg.Temperature, kind, r)
  ELSE IF Lt(cfg.Temperature, r.Temperature)
       THEN [energy |-> Q(0), r |-> [r EXCEPT !.Temperature = cfg.Temperature]]
  ELSE [energy |-> Q(0), r |-> r]

\* Conditioning of one resource toward the node's Pressure / Temperature
\* (the body of the loop of Process.configureInputs)
ConfigureOne(cfg, kind, r) ==
  LET pc1 == ConfigurePressure(cfg, kind, r)
      tc1 == ConfigureTemperature(cfg, kind, pc1.r)
  IN  [err |-> PressureFails(cfg, r) \/ TemperatureFails(cfg, pc1.r),
       energy |-> IF PressureFails(cfg, r) THEN Q(0) ELSE Add(pc1.energy, tc1.energy),
       r |-> tc1.r]

\* Process.configureInputs(input_resources): every given resource is conditioned,
\* the energy is added to energy_demand; the first failure stops the loop
RECURSIVE ConfigureInputs(_, _, _, _)
ConfigureInputs(cfg, items, i, acc) ==
  IF i > Len(items) THEN acc
  ELSE LET c == ConfigureOne(cfg, items[i].k, items[i].v)
           acc1 == [err |-> c.err, energy |-> Add(acc.energy, c.energy),
                    items |-> [acc.items EXCEPT ![i] = Entry(items[i].k, c.r)]]
       IN  IF c.err THEN acc1 ELSE ConfigureInputs(cfg, items, i + 1, acc1)

HasAny(cfg) == Has(cfg.Inputs, "ANY")

\* The input components the validation loop of Process.run reaches: it breaks at 'ANY'
RECURSIVE NamedBeforeAny(_)
NamedBeforeAny(ins) ==
  IF ins = <<>> \/ ins[1].k = "ANY" THEN <<>> ELSE <<ins[1]>> \o NamedBeforeAny(Tail(ins))

\* a used_ratio that ignores how much of each input was supplied
MinRatioUnlimited(items, maxUsed, acc) == acc

\* used_ratio of Process.run without 'ANY': min(1, Mass / max_used) over the kept inputs
RECURSIVE MinRatio(_, _, _)
MinRatio(items, maxUsed, acc) ==
  IF items = <<>> THEN acc
  ELSE MinRatio(Tail(items), maxUsed,
                MinQ(acc, Div(items[1].v.Mass, Get(maxUsed, items[1].k))))

\* the outputs created by Process.run / the requests created by Process.request:
\* one new resource per component at scale * Rate, at the node's conditions
RECURSIVE Instantiate(_, _, _, _)
Instantiate(cfg, comps, scale, acc) ==
  IF comps = <<>> THEN acc
  ELSE IF comps[1].k = "ANY" THEN Instantiate(cfg, Tail(comps), scale, acc)
  ELSE LET n == New(comps[1].k, Mul(scale, comps[1].v.Rate), cfg.Temperature, cfg.Pressure,
                    comps[1].v.Phase)
       IN  IF ~n.ok THEN [err |-> TRUE, items |-> acc.items]
           ELSE Instantiate(cfg, Tail(comps), scale,
                            [err |-> FALSE, items |-> Put(acc.items, comps[1].k, n.r)])

\* a deduction of one second's worth of a named input, whatever the step
MassRemovedPerSecond(cfg, dt, used, kind, r, inputMasses) ==
  IF HasAny(cfg)
  THEN Div(Mul(Mul(Mul(dt, used), Get(cfg.Inputs, "ANY").Rate), r.Mass), inputMasses)
  ELSE Mul(used, Get(cfg.Inputs, kind).Rate)

\* mass deducted from one kept input by Process.run
MassRemoved(cfg, dt, used, kind, r, inputMasses) ==
  IF HasAny(cfg)
  THEN Div(Mul(Mul(Mul(dt, used), Get(cfg.Inputs, "ANY").Rate), r.Mass), inputMasses)
  ELSE Mul(Mul(dt, used), Get(cfg.Inputs, kind).Rate)

RECURSIVE Deduct(_, _, _, _, _, _)
\* lines 125-128: an input used up to 99.999% is used up, any other keeps the rest
DeductOne(cfg, dt, used, kept, inputMasses, acc, removed) ==
  IF IsZero(removed) THEN [acc EXCEPT !.err = "ZeroDivisionError"]
  ELSE IF Le(AbsQ(Sub(Q(1), Div(kept[1].v.Mass, removed))), ZERO_TOL)
       THEN Deduct(cfg, dt, used, Tail(kept), inputMasses,
                   [acc EXCEPT !.removed = Put(@, kept[1].k, removed)])
  ELSE LET sm == SetMass(kept[1].k, kept[1].v, Sub(kept[1].v.Mass, removed))
       IN  IF ~sm.ok THEN [acc EXCEPT !.err = "ValueError"]
           ELSE Deduct(cfg, dt, used, Tail(kept), inputMasses,
                       [acc EXCEPT !.items = Put(@, kept[1].k, sm.r),
                                   !.removed = Put(@, kept[1].k, removed)])

\* "Subtract mass from inputs; put what remains into overage": acc.items is passthrough_resources
Deduct(cfg, dt, used, kept, inputMasses, acc) ==
  IF kept = <<>> THEN acc
  ELSE IF HasAny(cfg) /\ IsZero(inputMasses) THEN [acc EXCEPT !.err = "ZeroDivisionError"]
  ELSE DeductOne(cfg, dt, used, kept, inputMasses, acc,
                 MassRemoved(cfg, dt, used, kept[1].k, kept[1].v, inputMasses))

\* the resources Process.run sets aside before balancing
Passthrough(cfg, items) ==
  IF HasAny(cfg)
  THEN Without(items, {items[i].k : i \in {j \in 1..Len(items) :
                                        items[j].v.Phase = Get(cfg.Inputs, "ANY").Phase}})
  ELSE Without(items, Keys(cfg.Inputs))

\* A failed run(): the exception and the model fields as the raise left them
RunFail(err, st) ==
  [err |-> err, st |-> st, out |-> Absent, produced |-> <<>>, removed |-> <<>>, kept |-> <<>>]

\* lines 119-132: the deduction once the outputs exist, and the returned dict
ProcessRunDeduct(cfg, st2, dt, pass, kept, inputMasses, used, outs) ==
  IF outs.err THEN RunFail("ValueError", st2)
  ELSE LET ded == Deduct(cfg, dt, used, kept, inputMasses,
                         [err |-> "", items |-> pass, removed |-> <<>>])
       IN  IF ded.err # "" THEN RunFail(ded.err, st2)
           ELSE [err |-> "", st |-> st2, out |-> Present(Merge(outs.items, ded.items)),
                 produced |-> outs.items, removed |-> ded.removed, kept |-> kept]

\* lines 109-118: duty cycle, energy and outputs for the ratio used
ProcessRunOutputs(cfg, st1, dt, pass, kept, inputMasses, used) ==
  ProcessRunDeduct(cfg,
                   [st1 EXCEPT !.duty_cycle = used,
                               !.energy_demand = Add(@, Mul(Mul(dt, cfg.Power), used))],
                   dt, pass, kept, inputMasses, used,
                   Instantiate(cfg, cfg.Outputs, Mul(dt, used), [err |-> FALSE, items |-> <<>>]))

\* lines 100-108: the limiting ratio over the kept inputs
ProcessRunBalance(cfg, st1, dt, pass, kept, maxUsed, inputMasses) ==
  IF IF HasAny(cfg) THEN IsZero(Mul(Get(cfg.Inputs, "ANY").Rate, dt))
     ELSE \E i \in 1..Len(kept) : IsZero(Get(maxUsed, kept[i].k))
  THEN RunFail("ZeroDivisionError", st1)
  ELSE ProcessRunOutputs(cfg, st1, dt, pass, kept, inputMasses,
                         IF HasAny(cfg)
                         THEN MinQ(Q(1), Div(inputMasses, Mul(Get(cfg.Inputs, "ANY").Rate, dt)))
                         ELSE MinRatio(kept, maxUsed, Q(1)))

\* lines 85-97: energy reset, conditioning, and the split into passthrough and kept
ProcessRunConfigured(cfg, st, dt, cond) ==
  IF cond.err THEN RunFail("BelowAmbient", [st EXCEPT !.energy_demand = cond.energy])
  ELSE ProcessRunBalance(cfg, [st EXCEPT !.energy_demand = cond.energy], dt,
                         Passthrough(cfg, cond.items),
                         Without(cond.items, Keys(Passthrough(cfg, cond.items))),
                         StepMasses(cfg.Inputs, dt),
                         SumMass(Without(cond.items, Keys(Passthrough(cfg, cond.items)))))

\* a run() that sets the passthrough aside first and conditions, and charges for, the
\* consumed inputs alone
ProcessRunSplitFirst(cfg, st, dt, inp) ==
  LET named == NamedBeforeAny(cfg.Inputs)
      eaten == Without(inp.items, Keys(Passthrough(cfg, inp.items)))
      conf == ConfigureInputs(cfg, eaten, 1, [err |-> FALSE, energy |-> Q(0), items |-> eaten])
  IN
  IF ~inp.some THEN RunFail("TypeError", st)
  ELSE IF \E i \in 1..Len(named) : ~Has(inp.items, named[i].k)
  THEN RunFail("MissingResource", st)
  ELSE IF \E i \in 1..Len(named) : Get(inp.items, named[i].k).Phase # named[i].v.Phase
  THEN RunFail("WrongPhase", st)
  ELSE ProcessRunConfigured(cfg, st, dt,
         [conf EXCEPT !.items = [i \in 1..Len(inp.items) |->
                                   IF Has(eaten, inp.items[i].k)
                                   THEN Entry(inp.items[i].k, Get(conf.items, inp.items[i].k))
                                   ELSE inp.items[i]]])

\* Process.run(delta_time, input_resources)
ProcessRun(cfg, st, dt, inp) ==
  LET named == NamedBeforeAny(cfg.Inputs)
  IN
  IF ~inp.some THEN RunFail("TypeError", st)
  ELSE IF \E i \in 1..Len(named) : ~Has(inp.items, named[i].k)
  THEN RunFail("MissingResource", st)
  ELSE IF \E i \in 1..Len(named) : Get(inp.items, named[i].k).Phase # named[i].v.Phase
  THEN RunFail("WrongPhase", st)
  ELSE ProcessRunConfigured(cfg, st, dt,
                            ConfigureInputs(cfg, inp.items, 1,
                                            [err |-> FALSE, energy |-> Q(0), items |-> inp.items]))

\* A request() result: err, model fields, the returned dict, and the request
\* dict as the call left it (the caller's Resource objects are changed in place)
ReqRet(err, st, out, req) == [err |-> err, st |-> st, out |-> out, req |-> req]

\* lines 157-159 for one targeted request: compression an upstream supplier is spared
RequestPressure(cfg, kind, r) ==
  IF ~IsNone(r.Pressure) /\ ~IsNone(cfg.Pressure) /\ Lt(cfg.Pressure, r.Pressure)
  THEN Compress(cfg.Pressure, kind, r) ELSE [energy |-> Q(0), r |-> r]

\* lines 160-162 for one targeted request
RequestTemperature(cfg, kind, r) ==
  IF ~IsNone(r.Temperature) /\ ~IsNone(cfg.Temperature) /\ Lt(cfg.Temperature, r.Temperature)
  THEN Heat(cfg.Temperature, kind, r) ELSE [energy |-> Q(0), r |-> r]

\* Lines 156-162 of Process.request for one targeted request: the energy an
\* upstream supplier would spend, and the request resource as changed in place
RequestConditionOne(cfg, kind, r) ==
  LET pc1 == RequestPressure(cfg, kind, r)
      tc1 == RequestTemperature(cfg, kind, pc1.r)
  IN  [err |-> (~IsNone(r.Pressure) /\ IsNone(cfg.Pressure))
                 \/ (~IsNone(pc1.r.Temperature) /\ IsNone(cfg.Temperature)),
       energy |-> Add(pc1.energy, tc1.energy),
       r |-> tc1.r]

RECURSIVE RequestCondition(_, _, _, _)
RequestCondition(cfg, items, i, acc) ==
  IF i > Len(items) THEN acc
  ELSE LET c == RequestConditionOne(cfg, items[i].k, items[i].v)
           acc1 == [err |-> c.err, energy |-> Sub(acc.energy, c.energy),
                    items |-> [acc.items EXCEPT ![i] = Entry(items[i].k, c.r)]]
       IN  IF c.err THEN acc1 ELSE RequestCondition(cfg, items, i + 1, acc1)

\* a used_ratio taken from the last requested kind alone
MaxRatioLast(items, maxMade, acc) ==
  IF items = <<>> THEN acc
  ELSE Div(items[Len(items)].v.Mass, Get(maxMade, items[Len(items)].k))

\* used_ratio of Process.request: max over the targeted kinds of Mass / max_made
RECURSIVE MaxRatio(_, _, _)
MaxRatio(items, maxMade, acc) ==
  IF items = <<>> THEN acc
  ELSE MaxRatio(Tail(items), maxMade,
                MaxQ(acc, Div(items[1].v.Mass, Get(maxMade, items[1].k))))

\* lines 172-181: the requests created for the inputs, joined with the passed-on requests
ProcessRequestInputs(cfg, st2, dt, pass, left, used) ==
  LET reqs == Instantiate(cfg, cfg.Inputs, Mul(dt, used), [err |-> FALSE, items |-> <<>>])
  IN  IF reqs.err THEN ReqRet("ValueError", st2, Absent, left)
      ELSE ReqRet("", st2, Present(Merge(reqs.items, pass)), left)

\* lines 163-171: the upstream energy is stored, the ratio is the largest demand and
\* sets duty cycle and projected energy
ProcessRequestRatio(cfg, st, dt, pass, targeted, maxMade, cond) ==
  IF cond.err THEN ReqRet("TypeError", st, Absent, Present(cond.items))
  ELSE IF \E i \in 1..Len(targeted) : IsZero(Get(maxMade, targeted[i].k))
  THEN ReqRet("ZeroDivisionError", [st EXCEPT !.upstream_energy_demand = cond.energy],
              Absent, Present(cond.items))
  ELSE ProcessRequestInputs(cfg,
         [st EXCEPT !.upstream_energy_demand = cond.energy,
                    !.duty_cycle = MaxRatio(cond.items, maxMade, Q(0)),
                    !.energy_demand = Mul(Mul(dt, cfg.Power), MaxRatio(cond.items, maxMade, Q(0)))],
         dt, pass, Present(cond.items), MaxRatio(cond.items, maxMade, Q(0)))

\* targeted requests that are checked for their phase only
ProcessRequestUnbounded(cfg, st, dt, req, pass, targeted) ==
  IF \E i \in 1..Len(targeted) : Get(cfg.Outputs, targeted[i].k).Phase # targeted[i].v.Phase
  THEN ReqRet("WrongPhase", st, Absent, req)
  ELSE ProcessRequestRatio(cfg, st, dt, pass, targeted, StepMasses(cfg.Outputs, dt),
                           RequestCondition(cfg, targeted, 1,
                                            [err |-> FALSE, energy |-> Q(0), items |-> targeted]))

\* lines 143-162: the checks on the targeted requests, then their conditioning
ProcessRequestTargeted(cfg, st, dt, req, pass, targeted) ==
  IF \E i \in 1..Len(targeted) : Get(cfg.Outputs, targeted[i].k).Phase # targeted[i].v.Phase
  THEN ReqRet("WrongPhase", st, Absent, req)
  ELSE IF targeted # <<>> /\ IsZero(dt) THEN ReqRet("ZeroDivisionError", st, Absent, req)
  ELSE IF \E i \in 1..Len(targeted) :
            Lt(Get(cfg.Outputs, targeted[i].k).Rate, Div(targeted[i].v.Mass, dt))
  THEN ReqRet("RateExceeded", st, Absent, req)
  ELSE ProcessRequestRatio(cfg, st, dt, pass, targeted, StepMasses(cfg.Outputs, dt),
                           RequestCondition(cfg, targeted, 1,
                                            [err |-> FALSE, energy |-> Q(0), items |-> targeted]))

\* Process.request(delta_time, request_resources)
ProcessRequest(cfg, st, dt, req) ==
  IF ~req.some THEN ReqRet("", st, Absent, req)
  ELSE ProcessRequestTargeted(cfg, st, dt, req, Without(req.items, Keys(cfg.Outputs)),
                              Only(req.items, Keys(cfg.Outputs)))

(***************************************************************************)
(* Multiplex (complex_process.py)                                          *)
(***************************************************************************)
\* math.ceil(use_ratio), use_ratio being the max over the given resources of
\* Mass / max_per_unit
NumMocks(useRatio) == Ceil(useRatio)

\* setMass(Mass / n) resp. setMass(Mass * n) on every resource of a dict
ScaleDown(items, n) ==
  [i \in 1..Len(items) |-> Entry(items[i].k, [items[i].v EXCEPT !.Mass = Div(@, Q(n))])]
ScaleUp(items, n) ==
  [i \in 1..Len(items) |-> Entry(items[i].k, [items[i].v EXCEPT !.Mass = Mul(@, Q(n))])]

\* lines 52-57: the energy and the returned requests of one unit, times the unit count
MultiplexRequestScaled(n, inner) ==
  IF inner.err # "" THEN inner
  ELSE ReqRet("", [inner.st EXCEPT !.energy_demand = Mul(@, Q(n))],
              Present(ScaleUp(inner.out.items, n)), inner.req)

\* lines 47-52: the unit count is stored, each request is cut to one unit's share
MultiplexRequestUnits(cfg, st, dt, req, n) ==
  IF n = 0 /\ req.items # <<>>
  THEN ReqRet("ZeroDivisionError", [st EXCEPT !.num_mocks = n], Absent, req)
  ELSE MultiplexRequestScaled(n,
         ProcessRequest(cfg, [st EXCEPT !.num_mocks = n], dt,
                        Present(IF req.items = <<>> THEN req.items ELSE ScaleDown(req.items, n))))

\* Multiplex.request(delta_time, request_resources)
MultiplexRequest(cfg, st, dt, req) ==
  IF ~req.some THEN ReqRet("", st, Absent, req)
  ELSE
  LET items == req.items
      maxPerUnit == StepMasses(cfg.Outputs, dt)
  IN
  IF \E i \in 1..Len(items) : ~Has(maxPerUnit, items[i].k) THEN ReqRet("KeyError", st, Absent, req)
  ELSE IF \E i \in 1..Len(items) : IsZero(Get(maxPerUnit, items[i].k))
  THEN ReqRet("ZeroDivisionError", st, Absent, req)
  ELSE MultiplexRequestUnits(cfg, st, dt, req, NumMocks(MaxRatio(items, maxPerUnit, Q(0))))

\* lines 30-35: the energy and the outputs of one unit, times the unit count
MultiplexRunScaled(n, inner) ==
  IF inner.err # "" THEN inner
  ELSE [inner EXCEPT !.st.energy_demand = Mul(@, Q(n)),
                     !.out = Present(ScaleUp(inner.out.items, n)),
                     !.produced = ScaleUp(@, n)]

\* lines 25-30: the unit count is stored, each input is cut to one unit's share
MultiplexRunUnits(cfg, st, dt, inp, n) ==
  IF n = 0 /\ inp.items # <<>> THEN RunFail("ZeroDivisionError", [st EXCEPT !.num_mocks = n])
  ELSE MultiplexRunScaled(n,
         ProcessRun(cfg, [st EXCEPT !.num_mocks = n], dt,
                    Present(IF inp.items = <<>> THEN inp.items ELSE ScaleDown(inp.items, n))))

\* Multiplex.run(delta_time, input_resources)
MultiplexRun(cfg, st, dt, inp) ==
  IF ~inp.some THEN RunFail("AttributeError", st)
  ELSE
  LET items == inp.items
      maxPerUnit == StepMasses(cfg.Inputs, dt)
  IN
  IF \E i \in 1..Len(items) : ~Has(maxPerUnit, items[i].k) THEN RunFail("KeyError", st)
  ELSE IF \E i \in 1..Len(items) : IsZero(Get(maxPerUnit, items[i].k))
  THEN RunFail("ZeroDivisionError", st)
  ELSE MultiplexRunUnits(cfg, st, dt, inp, NumMocks(MaxRatio(items, maxPerUnit, Q(0))))

(***************************************************************************)
(* ResourceDeposit (complex_process.py)                                    *)
(***************************************************************************)
\* a rate set by the kind requested last
RECURSIVE DepositRateLast(_, _, _, _)
DepositRateLast(cfg, dt, items, acc) ==
  IF items = <<>> THEN acc
  ELSE IF items[1].k = "ANY" THEN DepositRateLast(cfg, dt, Tail(items), acc)
  ELSE IF ~Has(cfg.Fractions, items[1].k) THEN [acc EXCEPT !.err = "UnknownResource"]
  ELSE IF IsZero(Mul(dt, Get(cfg.Fractions, items[1].k)))
       THEN [acc EXCEPT !.err = "ZeroDivisionError"]
  ELSE DepositRateLast(cfg, dt, Tail(items),
         [acc EXCEPT !.rate = Div(items[1].v.Mass, Mul(dt, Get(cfg.Fractions, items[1].k)))])

\* the loop of ResourceDeposit.request: acc.rate is self.output_rate
RECURSIVE DepositRate(_, _, _, _)
DepositRate(cfg, dt, items, acc) ==
  IF items = <<>> THEN acc
  ELSE IF items[1].k = "ANY" THEN DepositRate(cfg, dt, Tail(items), acc)
  ELSE IF ~Has(cfg.Fractions, items[1].k) THEN [acc EXCEPT !.err = "UnknownResource"]
  ELSE IF IsZero(Mul(dt, Get(cfg.Fractions, items[1].k)))
       THEN [acc EXCEPT !.err = "ZeroDivisionError"]
  ELSE DepositRate(cfg, dt, Tail(items),
         [acc EXCEPT !.rate = MaxQ(@, Div(items[1].v.Mass,
                                          Mul(dt, Get(cfg.Fractions, items[1].k))))])

\* ResourceDeposit.request(delta_time, request_resources)
DepositRequest(cfg, st, dt, req) ==
  LET st0 == [st EXCEPT !.output_rate = Q(0)]
  IN  IF ~req.some THEN ReqRet("AttributeError", st0, Absent, req)
      ELSE LET res == DepositRate(cfg, dt, req.items, [err |-> "", rate |-> Q(0)])
               st1 == [st0 EXCEPT !.output_rate = res.rate]
           IN  IF res.err # "" THEN ReqRet(res.err, st1, Absent, req)
               ELSE ReqRet("", [st1 EXCEPT !.energy_demand = Q(0)], Absent, req)

\* the resources a deposit emits: mass = delta_time * output_rate * fraction
RECURSIVE DepositOutputs(_, _, _, _, _)
DepositOutputs(cfg, dt, rate, fr, acc) ==
  IF fr = <<>> THEN acc
  ELSE LET n == New(fr[1].k, Mul(Mul(dt, rate), fr[1].v), cfg.Temperature, cfg.Pressure, cfg.Phase)
       IN  IF ~n.ok THEN [err |-> TRUE, items |-> acc.items]
           ELSE DepositOutputs(cfg, dt, rate, Tail(fr),
                               [err |-> FALSE, items |-> Put(acc.items, fr[1].k, n.r)])

\* ResourceDeposit.run(delta_time, input_resources)
DepositRun(cfg, st, dt, inp) ==
  IF IsNone(st.output_rate) THEN RunFail("NoOutputRate", st)
  ELSE IF inp.some THEN RunFail("UnexpectedInput", st)
  ELSE LET st1 == [st EXCEPT !.energy_demand = Q(0)]
           outs == DepositOutputs(cfg, dt, st.output_rate, cfg.Fractions,
                                  [err |-> FALSE, items |-> <<>>])
       IN  IF outs.err THEN RunFail("ValueError", st1)
           ELSE [RunFail("", st1) EXCEPT !.out = Present(outs.items), !.produced = outs.items]

(***************************************************************************)
(* ResourceDepot (complex_process.py)                                      *)
(***************************************************************************)
\* use_mTot: min over the composition kinds present of mass / fraction,
\* starting from 100 * request_mass^2
RECURSIVE LimitingTotal(_, _, _)
LimitingTotal(cfg, items, acc) ==
  IF items = <<>> THEN acc
  ELSE IF ~Has(cfg.Fractions, items[1].k) THEN LimitingTotal(cfg, Tail(items), acc)
  ELSE LimitingTotal(cfg, Tail(items),
                     MinQ(acc, Div(items[1].v.Mass, Get(cfg.Fractions, items[1].k))))

RECURSIVE DepotStore(_, _, _, _)
\* one composition kind of the storing loop: removed is what the depot takes of it
DepotStoreOne(cfg, mTot, items, acc, removed) ==
  IF IsZero(removed) THEN [acc EXCEPT !.err = "ZeroDivisionError"]
  ELSE
  LET kind == items[1].k
      r == items[1].v
      whole == Le(AbsQ(Sub(Q(1), Div(r.Mass, removed))), ZERO_TOL)
      sm == SetMass(kind, r, Sub(r.Mass, removed))
      r1 == IF whole THEN r ELSE sm.r
      ov == IF whole THEN acc.Overage ELSE Put(acc.Overage, kind, r1)
      n == New(kind, removed, r1.Temperature, r1.Pressure, cfg.Phase)
  IN  IF ~whole /\ ~sm.ok THEN [acc EXCEPT !.err = "ValueError"]
      ELSE IF ~n.ok THEN [acc EXCEPT !.err = "ValueError", !.Overage = ov]
      ELSE DepotStore(cfg, mTot, Tail(items),
                      [acc EXCEPT !.Overage = ov, !.Contents = Put(@, kind, n.r)])

\* the storing loop of ResourceDepot.run: acc carries Contents and Overage
DepotStore(cfg, mTot, items, acc) ==
  IF items = <<>> THEN acc
  ELSE IF ~Has(cfg.Fractions, items[1].k)
       THEN DepotStore(cfg, mTot, Tail(items),
                       [acc EXCEPT !.Overage = Put(@, items[1].k, items[1].v)])
  ELSE DepotStoreOne(cfg, mTot, items, acc, Mul(mTot, Get(cfg.Fractions, items[1].k)))

\* lines 139-152: Contents and Overage as the storing loop left them
DepotRunStored(st1, stored) ==
  RunFail(stored.err,
          [st1 EXCEPT !.Contents = Present(stored.Contents), !.Overage = Present(stored.Overage)])

\* lines 131-151: conditioning, the limiting total, the storing loop
DepotRunConfigured(cfg, st, cond) ==
  IF cond.err THEN RunFail("BelowAmbient", [st EXCEPT !.energy_demand = cond.energy])
  ELSE IF \E i \in 1..Len(cond.items) :
            Has(cfg.Fractions, cond.items[i].k) /\ IsZero(Get(cfg.Fractions, cond.items[i].k))
  THEN RunFail("ZeroDivisionError", [st EXCEPT !.energy_demand = cond.energy])
  ELSE DepotRunStored([st EXCEPT !.energy_demand = cond.energy],
         DepotStore(cfg,
                    LimitingTotal(cfg, cond.items,
                                  Mul(Q(100), Mul(st.request_mass, st.request_mass))),
                    cond.items, [err |-> "", Contents |-> <<>>, Overage |-> <<>>]))

\* ResourceDepot.run(delta_time, input_resources)
DepotRun(cfg, st, dt, inp) ==
  IF IsNone(st.request_mass) THEN RunFail("NoRequestMass", st)
  ELSE IF ~inp.some /\ cfg.Fractions # <<>> THEN RunFail("TypeError", st)
  ELSE IF \E i \in 1..Len(cfg.Fractions) : ~Has(inp.items, cfg.Fractions[i].k)
  THEN RunFail("IndexError", st)      \* the message's format() has too few arguments
  ELSE IF \E i \in 1..Len(cfg.Fractions) : Get(inp.items, cfg.Fractions[i].k).Phase # cfg.Phase
  THEN RunFail("WrongPhase", st)
  ELSE IF ~inp.some THEN RunFail("TypeError", [st EXCEPT !.energy_demand = Q(0)])
  ELSE DepotRunConfigured(cfg, st,
                          ConfigureInputs(cfg, inp.items, 1,
                                          [err |-> FALSE, energy |-> Q(0), items |-> inp.items]))

\* requests of the whole required mass for the first composition kind alone
DepotRequestsWhole(cfg, mass, fr, acc) ==
  IF fr = <<>> THEN acc
  ELSE [err |-> FALSE,
        items |-> <<Entry(fr[1].k, New(fr[1].k, mass, cfg.Temperature, cfg.Pressure, cfg.Phase).r)>>]

\* the requests a depot creates: request_mass * fraction per composition kind
RECURSIVE DepotRequests(_, _, _, _)
DepotRequests(cfg, mass, fr, acc) ==
  IF fr = <<>> THEN acc
  ELSE LET n == New(fr[1].k, Mul(mass, fr[1].v), cfg.Temperature, cfg.Pressure, cfg.Phase)
       IN  IF ~n.ok THEN [err |-> TRUE, items |-> acc.items]
           ELSE DepotRequests(cfg, mass, Tail(fr),
                              [err |-> FALSE, items |-> Put(acc.items, fr[1].k, n.r)])

\* a depot request that accepts a desired-output argument
DepotRequestAnyArgument(cfg, st, dt, req) ==
  IF IsNone(st.request_mass) THEN ReqRet("NoRequestMass", st, Absent, req)
  ELSE LET reqs == DepotRequests(cfg, st.request_mass, cfg.Fractions,
                                 [err |-> FALSE, items |-> <<>>])
       IN  IF reqs.err THEN ReqRet("ValueError", st, Absent, req)
           ELSE ReqRet("", [st EXCEPT !.energy_demand = Q(0)], Present(reqs.items), req)

\* ResourceDepot.request(delta_time, request_resources)
DepotRequest(cfg, st, dt, req) ==
  IF IsNone(st.request_mass) THEN ReqRet("NoRequestMass", st, Absent, req)
  ELSE IF req.some THEN ReqRet("UnexpectedRequest", st, Absent, req)
  ELSE LET reqs == DepotRequests(cfg, st.request_mass, cfg.Fractions,
                                 [err |-> FALSE, items |-> <<>>])
       IN  IF reqs.err THEN ReqRet("ValueError", st, Absent, req)
           ELSE ReqRet("", [st EXCEPT !.energy_demand = Q(0)], Present(reqs.items), req)

\* model.request(...) / model.run(...) dispatched on the class of the node
Request(cfg, st, dt, req) ==
  CASE cfg.Type = "Process" -> ProcessRequest(cfg, st, dt, req)
    [] cfg.Type = "Multiplex" -> MultiplexRequest(cfg, st, dt, req)
    [] cfg.Type = "Deposit" -> DepositRequest(cfg, st, dt, req)
    [] cfg.Type = "Depot" -> DepotRequest(cfg, st, dt, req)

Run(cfg, st, dt, inp) ==
  CASE cfg.Type = "Process" -> ProcessRun(cfg, st, dt, inp)
    [] cfg.Type = "Multiplex" -> MultiplexRun(cfg, st, dt, inp)
    [] cfg.Type = "Deposit" -> DepositRun(cfg, st, dt, inp)
    [] cfg.Type = "Depot" -> DepotRun(cfg, st, dt, inp)

(***************************************************************************)
(* Plant definitions handed to ISRUPlant()                                 *)
(***************************************************************************)
Solid(name, rate) == Component(name, "SOLID", rate)
Ambient(type, filter, ins, outs, power) ==
  ProcessCfg(type, filter, ins, outs, power, MarsTemperature, MarsPressure)
SolidDeposit(fractions) == DepositCfg(fractions, "SOLID", MarsTemperature, MarsPressure)
SolidDepot(fractions) == DepotCfg(fractions, "SOLID", NoneQ, NoneQ, NoneQ)

\* Deposit(Water 0.5, Mars_Regolith 0.5) -> Process(1 + 1 -> 2 kg/s Mars_Slag) -> Depot(Mars_Slag 1.0)
MixDeposit == SolidDeposit(<<Entry("Water", Frac(1, 2)), Entry("Mars_Regolith", Frac(1, 2))>>)
Smelter == Ambient("Process", FALSE, <<Solid("Water", Q(1)), Solid("Mars_Regolith", Q(1))>>,
                   <<Solid("Mars_Slag", Q(2))>>, Q(0))
SlagDepot == SolidDepot(<<Entry("Mars_Slag", Q(1))>>)

PlantChain ==
  [order |-> <<"Dep", "Proc", "Depot">>,
   From  |-> [n \in {"Dep", "Proc", "Depot"} |->
               CASE n = "Dep" -> Absent [] n = "Proc" -> Present(<<"Dep">>)
                 [] n = "Depot" -> Present(<<"Proc">>)],
   Model |-> [n \in {"Dep", "Proc", "Depot"} |->
               CASE n = "Dep" -> MixDeposit [] n = "Proc" -> Smelter [] n = "Depot" -> SlagDepot]]

\* the same chain with a predecessor name that is no node
PlantGhost == [PlantChain EXCEPT !.From["Proc"] = Present(<<"Dep", "Ghost">>)]

\* the same chain whose depot also wants a kind nothing upstream supplies
PlantChainMissing ==
  [PlantChain EXCEPT !.Model["Depot"] =
     SolidDepot(<<Entry("Mars_Slag", Frac(1, 2)), Entry("Mars_Basaltic_Glass", Frac(1, 2))>>)]

\* a deposit with no successor and nothing else
PlantLone ==
  [order |-> <<"Dep">>, From |-> [n \in {"Dep"} |-> Absent],
   Model |-> [n \in {"Dep"} |-> MixDeposit]]

\* Dep -> Proc -> Depot <- LoopB <-> LoopA : a directed cycle LoopA -> LoopB -> LoopA
PlantCycle ==
  [order |-> <<"Dep", "Proc", "LoopA", "LoopB", "Depot">>,
   From  |-> [n \in {"Dep", "Proc", "LoopA", "LoopB", "Depot"} |->
               CASE n = "Dep" -> Absent [] n = "Proc" -> Present(<<"Dep">>)
                 [] n = "LoopA" -> Present(<<"LoopB">>) [] n = "LoopB" -> Present(<<"LoopA">>)
                 [] n = "Depot" -> Present(<<"Proc", "LoopB">>)],
   Model |-> [n \in {"Dep", "Proc", "LoopA", "LoopB", "Depot"} |->
               CASE n = "Dep" -> MixDeposit [] n = "Proc" -> Smelter
                 [] n = "LoopA" -> Ambient("Process", FALSE, <<Solid("Mars_Metal_Alloy", Q(1))>>,
                                           <<Solid("Mars_Basaltic_Glass", Q(1))>>, Q(0))
                 [] n = "LoopB" -> Ambient("Process", FALSE, <<Solid("Mars_Basaltic_Glass", Q(1))>>,
                                           <<Solid("Mars_Metal_Alloy", Q(1))>>, Q(0))
                 [] n = "Depot" -> SlagDepot]]

\* two branches joined at the depot, which also wants a kind neither branch makes
PlantFanIn ==
  [order |-> <<"D1", "D2", "P1", "P2", "Depot">>,
   From  |-> [n \in {"D1", "D2", "P1", "P2", "Depot"} |->
               CASE n \in {"D1", "D2"} -> Absent [] n = "P1" -> Present(<<"D1">>)
                 [] n = "P2" -> Present(<<"D2">>) [] n = "Depot" -> Present(<<"P1", "P2">>)],
   Model |-> [n \in {"D1", "D2", "P1", "P2", "Depot"} |->
               CASE n = "D1" -> SolidDeposit(<<Entry("Water", Q(1))>>)
                 [] n = "D2" -> SolidDeposit(<<Entry("Mars_Regolith", Q(1))>>)
                 [] n = "P1" -> Ambient("Process", FALSE, <<Solid("Water", Q(1))>>,
                                        <<Solid("Mars_Slag", Q(1))>>, Q(3))
                 [] n = "P2" -> Ambient("Process", FALSE, <<Solid("Mars_Regolith", Q(1))>>,
                                        <<Solid("Mars_Metal_Alloy", Q(1))>>, Q(0))
                 [] n = "Depot" -> SolidDepot(<<Entry("Mars_Slag", Frac(1, 4)),
                                               Entry("Mars_Metal_Alloy", Frac(1, 4)),
                                               Entry("Mars_Basaltic_Glass", Frac(1, 2))>>)]]

\* a filtered multiplexed unit feeding the depot, and an unfiltered wildcard
\* consumer with no successor taking the rest of the deposit's output
PlantSplit ==
  [order |-> <<"Dep", "Mux", "Bag", "Depot">>,
   From  |-> [n \in {"Dep", "Mux", "Bag", "Depot"} |->
               CASE n = "Dep" -> Absent [] n = "Mux" -> Present(<<"Dep">>)
                 [] n = "Bag" -> Present(<<"Dep">>) [] n = "Depot" -> Present(<<"Mux">>)],
   Model |-> [n \in {"Dep", "Mux", "Bag", "Depot"} |->
               CASE n = "Dep" -> MixDeposit
                 [] n = "Mux" -> Ambient("Multiplex", TRUE, <<Solid("Water", Frac(1, 2))>>,
                                         <<Solid("Mars_Slag", Frac(1, 2))>>, Q(10))
                 [] n = "Bag" -> Ambient("Process", FALSE, <<Solid("ANY", Q(1))>>,
                                         <<Solid("Mars_Metal_Alloy", Q(1))>>, Q(5))
                 [] n = "Depot" -> SlagDepot]]

\* the three-node chain with a process that names the depot as its predecessor
PlantTail ==
  [order |-> <<"Dep", "Proc", "Depot", "Tail">>,
   From  |-> [n \in {"Dep", "Proc", "Depot", "Tail"} |->
               CASE n = "Dep" -> Absent [] n = "Proc" -> Present(<<"Dep">>)
                 [] n = "Depot" -> Present(<<"Proc">>) [] n = "Tail" -> Present(<<"Depot">>)],
   Model |-> [n \in {"Dep", "Proc", "Depot", "Tail"} |->
               CASE n = "Dep" -> MixDeposit [] n = "Proc" -> Smelter [] n = "Depot" -> SlagDepot
                 [] n = "Tail" -> Ambient("Process", FALSE, <<Solid("Mars_Slag", Q(1))>>,
                                          <<Solid("Mars_Basaltic_Glass", Q(1))>>, Q(0))]]

\* the deposit feeding one filtered process that consumes Water alone
PlantSieve ==
  [PlantChain EXCEPT !.Model["Proc"] =
     Ambient("Process", TRUE, <<Solid("Water", Q(2))>>, <<Solid("Mars_Slag", Q(2))>>, Q(0))]

\* two filtered processes that both consume the deposit's Water, at different rates,
\* and feed one depot
PlantDiamond ==
  [order |-> <<"Dep", "A", "B", "Depot">>,
   From  |-> [n \in {"Dep", "A", "B", "Depot"} |->
               CASE n = "Dep" -> Absent [] n \in {"A", "B"} -> Present(<<"Dep">>)
                 [] n = "Depot" -> Present(<<"A", "B">>)],
   Model |-> [n \in {"Dep", "A", "B", "Depot"} |->
               CASE n = "Dep" -> MixDeposit
                 [] n = "A" -> Ambient("Process", TRUE, <<Solid("Water", Q(4))>>,
                                       <<Solid("Mars_Slag", Q(2))>>, Q(0))
                 [] n = "B" -> Ambient("Process", TRUE, <<Solid("Water", Q(2))>>,
                                       <<Solid("Mars_Metal_Alloy", Q(2))>>, Q(0))
                 [] n = "Depot" -> SolidDepot(<<Entry("Mars_Slag", Frac(1, 2)),
                                               Entry("Mars_Metal_Alloy", Frac(1, 2))>>)]]

\* the split with the unfiltered consumer defined before the filtered one
PlantSplitBagFirst == [PlantSplit EXCEPT !.order = <<"Dep", "Bag", "Mux", "Depot">>]

Topologies ==
  <<PlantChain, PlantGhost, PlantChainMissing, PlantLone, PlantCycle, PlantFanIn, PlantSplit,
    PlantTail, PlantSieve, PlantSplitBagFirst, PlantDiamond>>

Names(d) == {d.order[i] : i \in 1..Len(d.order)}
OfType(d, type) == SelectSeq(d.order, LAMBDA n : d.Model[n].Type = type)
Deposits(d) == OfType(d, "Deposit")      \* self.Deposits, in definition order
Depots(d) == OfType(d, "Depot")          \* self.Depots

(***************************************************************************)
(* ISRUPlant (plant_model.py)                                              *)
(***************************************************************************)
RequestMasses == {Q(100 * k) : k \in 0..(MaxRequestUnits - 1)}
DeltaTs == {Q(50), Q(100)}

\* requested_outputs of setup(): {} or one entry, naming a depot or an unknown name
SetupRequests(d) ==
  {<<>>, <<Entry("Nope", Q(100))>>}
    \cup {<<Entry(n, m)>> : n \in {Depots(d)[i] : i \in 1..Len(Depots(d))}, m \in RequestMasses}

NoFed == [n |-> "", inp |-> Absent, before |-> <<>>, given |-> {}]
NoCall == [dt |-> Q(0), outstanding |-> <<>>, idx |-> 0, run_processes |-> <<>>, passes |-> 0,
           called |-> <<>>, fed |-> NoFed]
NoLast == [op |-> "none", status |-> "none", err |-> "", req |-> <<>>, dt |-> Q(0),
           called |-> <<>>]
NoSnap == [valid |-> FALSE, status |-> "none", req |-> <<>>, dt |-> Q(0),
           energy |-> Q(0), rates |-> <<>>]
NoRan == [valid |-> FALSE, status |-> "none", dt |-> Q(0), produced |-> <<>>,
          overages |-> <<>>, energy |-> Q(0)]
NoHist == [prev |-> NoSnap, cur |-> NoSnap, runBetween |-> FALSE, runAfter |-> FALSE,
           calls |-> 0, ran |-> NoRan]
NoPlant == [projected_energy |-> Q(0), projected_power |-> NoneQ,
            actual_energy |-> Q(0), actual_power |-> NoneQ,
            baseline_requests |-> <<>>, input_consumed |-> <<>>,
            output_produced |-> <<>>, overages |-> <<>>]

\* the keys setup()/run() keep in self.Chain[name] besides Model / From / To
NoScratch == [Ready |-> FALSE, Run |-> FALSE, Resource_Request |-> Absent,
              Output_Resources |-> Absent, Energy_Request |-> Q(0), Energy_Used |-> Q(0)]

Init ==
  /\ defs \in {Topologies[i] : i \in 1..Len(Topologies)}
  /\ pc = "new"
  /\ links = [n \in Names(defs) |-> [From |-> defs.From[n], To |-> Absent]]
  /\ chain = [n \in Names(defs) |-> NoScratch]
  /\ model = [n \in Names(defs) |-> InitModel(defs.Model[n])]
  /\ plant = NoPlant
  /\ call = NoCall
  /\ last = NoLast
  /\ hist = NoHist
  /\ u = [stage |-> "off"]

\* every backlink of the definitions, in the order __init__ visits them
RECURSIVE Backlinks(_, _)
Backlinks(d, i) ==
  IF i > Len(d.order) THEN <<>>
  ELSE LET fr == d.From[d.order[i]]
       IN  [j \in 1..Len(fr.items) |-> [from |-> fr.items[j], to |-> d.order[i]]]
           \o Backlinks(d, i + 1)

\* a check that looks at the first backlink of each node only
UnknownLinkFirstOnly(d) ==
  \E n \in Names(d) : d.From[n].some /\ d.From[n].items # <<>> /\ d.From[n].items[1] \notin Names(d)

\* "Found link to unknown model"
UnknownLink(d) == \E i \in 1..Len(Backlinks(d, 1)) : Backlinks(d, 1)[i].from \notin Names(d)

\* data['To'] of node n once every backlink has been appended
ToList(d, n) ==
  LET hits == SelectSeq(Backlinks(d, 1), LAMBDA b : b.from = n)
      tos == [i \in 1..Len(hits) |-> hits[i].to]
  IN  IF tos = <<>> THEN Absent ELSE Present(tos)

\* ISRUPlant.__init__(model_definitions)
Construct ==
  /\ pc = "new"
  /\ IF UnknownLink(defs)
     THEN /\ pc' = "dead"
          /\ last' = [NoLast EXCEPT !.op = "construct", !.status = "error", !.err = "ValueError"]
          /\ UNCHANGED links
     ELSE /\ pc' = "idle"
          /\ last' = [NoLast EXCEPT !.op = "construct", !.status = "ok"]
          /\ links' = [n \in Names(defs) |-> [From |-> defs.From[n], To |-> ToList(defs, n)]]
  /\ UNCHANGED <<defs, chain, model, plant, call, hist, u>>

\* the resolved rate of every deposit, in definition order
Rates(d, m) == [i \in 1..Len(Deposits(d)) |-> Entry(Deposits(d)[i], m[Deposits(d)[i]].output_rate)]

\* what a finished setup() call leaves to compare
Snap(status, req, dt, pl, m) ==
  [valid |-> TRUE, status |-> status, req |-> req, dt |-> dt,
   energy |-> pl.projected_energy, rates |-> Rates(defs, m)]

\* bookkeeping when a setup() call returns or raises
SetupReturns(status, err, req, dt, pl, m) ==
  /\ pc' = "idle"
  /\ call' = NoCall
  /\ last' = [op |-> "setup", status |-> status, err |-> err, req |-> req, dt |-> dt,
               called |-> call.called]
  /\ hist' = [prev |-> hist.cur, cur |-> Snap(status, req, dt, pl, m),
              runBetween |-> hist.runAfter, runAfter |-> FALSE, calls |-> hist.calls + 1,
              ran |-> NoRan]

\* lines 93-96: request_mass of the named depots, up to the first unknown name
RECURSIVE SeedDepots(_, _, _)
SeedDepots(d, req, acc) ==
  IF req = <<>> THEN acc
  ELSE IF ~InSeq(req[1].k, Depots(d)) THEN [acc EXCEPT !.err = "UnknownDepot"]
  ELSE SeedDepots(d, Tail(req), [acc EXCEPT !.m[req[1].k].request_mass = req[1].v])

\* lines 148-154: every deposit must hold a rate, then energy becomes power
SetupFinish(req, dt, pl, m) ==
  IF \E i \in 1..Len(Deposits(defs)) : IsNone(m[Deposits(defs)[i]].output_rate)
  THEN /\ SetupReturns("error", "NoOutputRequest", req, dt, pl, m)
       /\ plant' = pl /\ model' = m
  ELSE /\ SetupReturns("ok", "", req, dt, [pl EXCEPT !.projected_power = Div(pl.projected_energy, dt)], m)
       /\ plant' = [pl EXCEPT !.projected_power = Div(pl.projected_energy, dt)]
       /\ model' = m

\* a reset that keeps the projected energy of the previous call
ResetProjectionKeepsEnergy(pl) == [pl EXCEPT !.baseline_requests = <<>>]

\* lines 88-89: "Reset configuration parameters"
ResetProjection(pl) == [pl EXCEPT !.projected_energy = Q(0), !.baseline_requests = <<>>]

\* an unknown depot name that ends setup() without raising
SetupUnknownDepotReturns(req, dt, pl, m) ==
  /\ SetupReturns("ok", "", req, dt, pl, m)
  /\ plant' = pl /\ model' = m
  /\ UNCHANGED chain

\* line 95: "Given unknown depot name"
SetupUnknownDepot(req, dt, pl, m) ==
  /\ SetupReturns("error", "UnknownDepot", req, dt, pl, m)
  /\ plant' = pl /\ model' = m
  /\ UNCHANGED chain

\* setup(requested_outputs, delta_t) up to the start of the scheduling loop
SetupStart(req, dt) ==
  /\ pc = "idle"
  /\ hist.calls < MaxCalls
  /\ LET pl == ResetProjection(plant)
         m0 == [n \in Names(defs) |->
                  IF defs.Model[n].Type = "Deposit"
                  THEN [model[n] EXCEPT !.output_rate = NoneQ] ELSE model[n]]
         seeded == SeedDepots(defs, req, [err |-> "", m |-> m0])
     IN  IF seeded.err # ""
         THEN SetupUnknownDepot(req, dt, pl, seeded.m)
         ELSE /\ chain' = [n \in Names(defs) |->
                            [chain[n] EXCEPT !.Ready = ~links[n].To.some, !.Run = FALSE]]
              /\ IF defs.order = <<>>
                 THEN SetupFinish(req, dt, pl, seeded.m)
                 ELSE /\ pc' = "setup"
                      /\ call' = [dt |-> dt, outstanding |-> defs.order, idx |-> 1,
                                  run_processes |-> <<>>, passes |-> 1, called |-> <<>>,
                                  fed |-> NoFed]
                      /\ last' = [op |-> "setup", status |-> "running", err |-> "",
                                  req |-> req, dt |-> dt, called |-> <<>>]
                      /\ plant' = pl /\ model' = seeded.m
                      /\ UNCHANGED hist
  /\ UNCHANGED <<defs, links, u>>

\* a merge that forwards the whole request of every successor
RECURSIVE MergeRequestsWhole(_, _, _, _)
MergeRequestsWhole(ch, n, tos, acc) ==
  IF tos = <<>> THEN acc
  ELSE MergeRequestsWhole(ch, n, Tail(tos),
         IF ch[tos[1]].Resource_Request.some
         THEN [acc EXCEPT !.items = Merge(@, ch[tos[1]].Resource_Request.items)] ELSE acc)

\* lines 114-125: the request merged from the successors of a ready node
RECURSIVE MergeRequests(_, _, _, _)
MergeRequests(ch, n, tos, acc) ==
  IF tos = <<>> \/ acc.err # "" THEN acc
  ELSE LET ds == tos[1]
           rr == ch[ds].Resource_Request
           wl == RequestWhitelist(defs.Model[n])
       IN  IF ~rr.some THEN MergeRequests(ch, n, Tail(tos), acc)
           ELSE IF Len(links[ds].From.items) > 1
           THEN IF ~wl.some /\ rr.items # <<>> THEN [acc EXCEPT !.err = "TypeError"]
                ELSE MergeRequests(ch, n, Tail(tos),
                       [acc EXCEPT !.items = Merge(@, Only(rr.items,
                                                {wl.items[i] : i \in 1..Len(wl.items)}))])
           ELSE MergeRequests(ch, n, Tail(tos), [acc EXCEPT !.items = Merge(@, rr.items)])

RequestedResources(ch, n) ==
  IF ~links[n].To.some THEN [err |-> "", req |-> Absent]
  ELSE LET mr == MergeRequests(ch, n, links[n].To.items, [err |-> "", items |-> <<>>])
       IN  [err |-> mr.err, req |-> Present(mr.items)]

\* The Resource objects of a request are shared with the successors' Resource_Request:
\* what model.request() changed in place shows there too (one level of sharing is kept)
WriteBack(ch, n, left) ==
  IF ~links[n].To.some \/ ~left.some THEN ch
  ELSE LET tos == links[n].To.items
           Gives(j, key) ==
             /\ ch[tos[j]].Resource_Request.some
             /\ Has(ch[tos[j]].Resource_Request.items, key)
             /\ (Len(links[tos[j]].From.items) > 1 =>
                   InSeq(key, RequestWhitelist(defs.Model[n]).items))
           Owner(key) == CHOOSE j \in 1..Len(tos) :
                            Gives(j, key) /\ \A l \in (j + 1)..Len(tos) : ~Gives(l, key)
       IN  [x \in DOMAIN ch |->
             IF ~InSeq(x, tos) \/ ~ch[x].Resource_Request.some THEN ch[x]
             ELSE [ch[x] EXCEPT !.Resource_Request.items =
                     [i \in 1..Len(@) |->
                        IF Has(left.items, @[i].k) /\ tos[Owner(@[i].k)] = x
                        THEN Entry(@[i].k, Get(left.items, @[i].k)) ELSE @[i]]]]

\* lines 130-135: the node's request() has returned res (or raised res.err)
SetupNodeDone(n, pl1, asked, res) ==
  IF res.err # ""
  THEN /\ SetupReturns("error", res.err, last.req, call.dt, pl1, [model EXCEPT ![n] = res.st])
       /\ model' = [model EXCEPT ![n] = res.st]
       /\ plant' = pl1
       /\ UNCHANGED chain
  ELSE /\ model' = [model EXCEPT ![n] = res.st]
       /\ chain' = [WriteBack(chain, n, res.req) EXCEPT
                      ![n].Resource_Request = res.out,
                      ![n].Energy_Request = res.st.energy_demand,
                      ![n].Run = TRUE]
       /\ plant' = [pl1 EXCEPT !.projected_energy = Add(@, res.st.energy_demand)]
       /\ call' = [call EXCEPT !.idx = @ + 1, !.run_processes = Append(@, n),
                          !.called = Append(@, n),
                          !.fed = [n |-> n, inp |-> asked,
                                   before |-> [x \in Names(defs) |-> chain[x].Resource_Request],
                                   given |-> {}]]
       /\ UNCHANGED <<pc, last, hist>>

\* lines 112-130: a ready node, given the request rq merged from its successors
SetupNode(n, rq) ==
  IF rq.err # ""
  THEN /\ SetupReturns("error", rq.err, last.req, call.dt, plant, model)
       /\ UNCHANGED <<chain, model, plant>>
  ELSE SetupNodeDone(n,
                     IF defs.Model[n].Type = "Deposit"
                     THEN [plant EXCEPT !.baseline_requests = Put(@, n, rq.req)] ELSE plant,
                     rq.req,
                     Request(defs.Model[n], model[n], call.dt, rq.req))

\* one iteration of "for process in process_outstanding" in setup()
SetupStep ==
  /\ pc = "setup"
  /\ call.idx <= Len(call.outstanding)
  /\ IF ~chain[call.outstanding[call.idx]].Ready
     THEN /\ call' = [call EXCEPT !.idx = @ + 1]
          /\ UNCHANGED <<pc, chain, model, plant, last, hist>>
     ELSE SetupNode(call.outstanding[call.idx],
                    RequestedResources(chain, call.outstanding[call.idx]))
  /\ UNCHANGED <<defs, links, u>>

\* process_outstanding.remove(process) for every process that ran
Remaining(outstanding, ran) == SelectSeq(outstanding, LAMBDA n : ~InSeq(n, ran))

\* a loop that never takes an empty pass for a dead end
NoProgressIgnored(ran) == FALSE

\* "if len(run_processes) < 1": a whole pass selected no node
NoProgress(ran) == Len(ran) < 1

\* a node that counts as ready whatever its neighbours have done
AllRunUnchecked(ch, names) == TRUE

\* every listed neighbour has its Run flag set (readyToRun)
AllRun(ch, names) == \A j \in 1..Len(names) : ch[names[j]].Run

\* the end of one pass of the while loop of setup(): dead-end check, removal,
\* readiness of what is left, and the code after the loop once nothing is left
SetupPassEnd ==
  /\ pc = "setup"
  /\ call.idx > Len(call.outstanding)
  /\ IF NoProgress(call.run_processes)
     THEN /\ SetupReturns("error", "DeadEnd", last.req, call.dt, plant, model)
          /\ UNCHANGED <<chain, model, plant>>
     ELSE LET rest == Remaining(call.outstanding, call.run_processes)
          IN  IF \E i \in 1..Len(rest) : ~links[rest[i]].To.some
              THEN /\ SetupReturns("error", "TypeError", last.req, call.dt, plant, model)
                   /\ UNCHANGED <<chain, model, plant>>
              ELSE /\ chain' = [n \in Names(defs) |->
                                 IF InSeq(n, rest)
                                 THEN [chain[n] EXCEPT !.Ready = AllRun(chain, links[n].To.items)]
                                 ELSE chain[n]]
                   /\ IF rest = <<>>
                      THEN SetupFinish(last.req, call.dt, plant, model)
                      ELSE /\ call' = [call EXCEPT !.outstanding = rest, !.idx = 1,
                                                   !.run_processes = <<>>, !.passes = @ + 1]
                           /\ UNCHANGED <<pc, model, plant, last, hist>>
  /\ UNCHANGED <<defs, links, u>>

\* bookkeeping when a run() call returns or raises
RunReturns(status, err, dt) ==
  /\ pc' = "idle"
  /\ call' = NoCall
  /\ last' = [op |-> "run", status |-> status, err |-> err, req |-> <<>>, dt |-> dt,
               called |-> call.called]
  /\ UNCHANGED hist

\* what the run() call before this one left, if the call before this one was a run()
Ran ==
  IF last.op = "run"
  THEN [valid |-> TRUE, status |-> last.status, dt |-> last.dt,
        produced |-> plant.output_produced, overages |-> plant.overages,
        energy |-> plant.actual_energy]
  ELSE NoRan

\* run(delta_t) up to the start of the scheduling loop (lines 160-172)
RunStart(dt) ==
  /\ pc = "idle"
  /\ hist.calls < MaxCalls
  /\ plant' = [plant EXCEPT !.actual_energy = Q(0), !.input_consumed = <<>>,
                            !.output_produced = <<>>, !.overages = <<>>]
  /\ chain' = [n \in Names(defs) |->
                 [chain[n] EXCEPT !.Ready = ~links[n].From.some, !.Run = FALSE]]
  /\ hist' = [hist EXCEPT !.runAfter = TRUE, !.calls = @ + 1, !.ran = Ran]
  /\ IF defs.order = <<>>
     THEN /\ pc' = "idle" /\ call' = NoCall
          /\ last' = [op |-> "run", status |-> "ok", err |-> "", req |-> <<>>, dt |-> dt,
                       called |-> <<>>]
     ELSE /\ pc' = "run"
          /\ call' = [dt |-> dt, outstanding |-> defs.order, idx |-> 1, run_processes |-> <<>>,
                      passes |-> 1, called |-> <<>>, fed |-> NoFed]
          /\ last' = [op |-> "run", status |-> "running", err |-> "", req |-> <<>>, dt |-> dt,
                       called |-> <<>>]
  /\ UNCHANGED <<defs, links, model, u>>

\* a blacklist that names nothing
BlacklistNone(n, tos, acc) == acc

\* the Whitelists of the other successors of a producer (lines 201-204)
RECURSIVE Blacklist(_, _, _)
Blacklist(n, tos, acc) ==
  IF tos = <<>> \/ acc.err # "" THEN acc
  ELSE IF tos[1] = n THEN Blacklist(n, Tail(tos), acc)
  ELSE LET wl == Whitelist(defs.Model[tos[1]])
       IN  IF ~wl.some THEN [acc EXCEPT !.err = "TypeError"]
           ELSE Blacklist(n, Tail(tos), [acc EXCEPT !.names = @ \cup
                                           {wl.items[i] : i \in 1..Len(wl.items)}])

\* a consumer that takes the whole pool whether it filters or not
TakenWhole(n, up, pool) == [err |-> "", items |-> pool]

\* what consumer n takes from the pool of producer up (lines 186-213)
Taken(n, up, pool) ==
  LET cfg == defs.Model[n]
      wl == Whitelist(cfg)
  IN  IF cfg.Filter
      THEN IF ~wl.some /\ pool # <<>> THEN [err |-> "TypeError", items |-> <<>>]
           ELSE [err |-> "", items |-> Only(pool, {wl.items[i] : i \in 1..Len(wl.items)})]
      ELSE IF Len(links[up].To.items) > 1
      THEN LET bl == Blacklist(n, links[up].To.items, [err |-> "", names |-> {}])
           IN  [err |-> bl.err, items |-> IF bl.err = "" THEN Without(pool, bl.names) ELSE <<>>]
      ELSE [err |-> "", items |-> pool]

RECURSIVE Gather(_, _, _)
\* what was taken from one predecessor joins the inputs and stays in its pool
GatherShared(n, froms, acc, t) ==
  IF t.err # "" THEN [acc EXCEPT !.err = t.err]
  ELSE Gather(n, Tail(froms),
              [acc EXCEPT !.items = Merge(@, t.items),
                          !.gave = @ \cup {<<froms[1], k>> : k \in Keys(t.items)}])

\* what was taken from one predecessor joins the inputs and leaves its pool
GatherTaken(n, froms, acc, t) ==
  IF t.err # "" THEN [acc EXCEPT !.err = t.err]
  ELSE Gather(n, Tail(froms),
              [acc EXCEPT !.items = Merge(@, t.items),
                          !.gave = @ \cup {<<froms[1], k>> : k \in Keys(t.items)},
                          !.ch[froms[1]].Output_Resources =
                             Present(Without(@.items, Keys(t.items)))])

\* lines 185-213: input_resources gathered over the predecessors, and the pools afterwards
Gather(n, froms, acc) ==
  IF froms = <<>> \/ acc.err # "" THEN acc
  ELSE IF ~acc.ch[froms[1]].Output_Resources.some THEN [acc EXCEPT !.err = "TypeError"]
  ELSE GatherTaken(n, froms, acc, Taken(n, froms[1], acc.ch[froms[1]].Output_Resources.items))

InputResources(ch, n) ==
  IF ~links[n].From.some THEN [err |-> "", inp |-> Absent, ch |-> ch, gave |-> {}]
  ELSE LET g == Gather(n, links[n].From.items,
                       [err |-> "", items |-> <<>>, ch |-> ch, gave |-> {}])
       IN  [err |-> g.err, inp |-> Present(g.items), ch |-> g.ch, gave |-> g.gave]

\* lines 214-233: the node's run() has returned res (or raised res.err)
RunNodeDone(n, g, res) ==
  IF res.err # ""
  THEN /\ RunReturns("error", res.err, call.dt)
       /\ chain' = g.ch
       /\ model' = [model EXCEPT ![n] = res.st]
       /\ UNCHANGED plant
  ELSE /\ model' = [model EXCEPT ![n] = res.st]
       /\ chain' = [g.ch EXCEPT ![n].Output_Resources = res.out,
                                ![n].Energy_Used = res.st.energy_demand,
                                ![n].Run = TRUE]
       /\ plant' = [plant EXCEPT
            !.output_produced = IF defs.Model[n].Type = "Depot"
                                THEN Put(@, n, res.st.Contents) ELSE @,
            !.input_consumed = IF defs.Model[n].Type = "Deposit"
                               THEN Put(@, n, res.out) ELSE @,
            !.actual_energy = Add(@, res.st.energy_demand)]
       /\ call' = [call EXCEPT !.idx = @ + 1, !.run_processes = Append(@, n),
                          !.called = Append(@, n),
                          !.fed = [n |-> n, inp |-> g.inp,
                                   before |-> [x \in Names(defs) |-> chain[x].Output_Resources],
                                   given |-> call.fed.given
                                               \cup {<<p[1], p[2], n>> : p \in g.gave}]]
       /\ UNCHANGED <<pc, last, hist>>

\* lines 180-214: a ready node, given the inputs g gathered from its predecessors
RunNode(n, g) ==
  IF g.err # ""
  THEN /\ RunReturns("error", g.err, call.dt)
       /\ chain' = g.ch
       /\ UNCHANGED <<model, plant>>
  ELSE RunNodeDone(n, g, Run(defs.Model[n], model[n], call.dt, g.inp))

\* one iteration of "for process in process_outstanding" in run()
RunStep ==
  /\ pc = "run"
  /\ call.idx <= Len(call.outstanding)
  /\ IF ~chain[call.outstanding[call.idx]].Ready
     THEN /\ call' = [call EXCEPT !.idx = @ + 1]
          /\ UNCHANGED <<pc, chain, model, plant, last, hist>>
     ELSE RunNode(call.outstanding[call.idx],
                  InputResources(chain, call.outstanding[call.idx]))
  /\ UNCHANGED <<defs, links, u>>

\* an overage report of the depots alone
OveragesDepotsOnly(ch, m, order, acc) ==
  LET depots == SelectSeq(order, LAMBDA n : defs.Model[n].Type = "Depot")
  IN  IF \E i \in 1..Len(depots) : ~m[depots[i]].Overage.some
      THEN [acc EXCEPT !.err = "AttributeError"]
      ELSE [acc EXCEPT !.items = [i \in 1..Len(depots) |-> Entry(depots[i], m[depots[i]].Overage)]]

\* lines 246-251: the overage report
RECURSIVE Overages(_, _, _, _)
Overages(ch, m, order, acc) ==
  IF order = <<>> \/ acc.err # "" THEN acc
  ELSE LET n == order[1]
           type == defs.Model[n].Type
       IN  IF type = "Depot"
           THEN IF ~m[n].Overage.some THEN [acc EXCEPT !.err = "AttributeError"]
                ELSE Overages(ch, m, Tail(order), [acc EXCEPT !.items = Put(@, n, m[n].Overage)])
           ELSE IF type = "Deposit" THEN Overages(ch, m, Tail(order), acc)
           ELSE IF ~ch[n].Output_Resources.some THEN [acc EXCEPT !.err = "TypeError"]
           ELSE IF ch[n].Output_Resources.items = <<>> THEN Overages(ch, m, Tail(order), acc)
           ELSE Overages(ch, m, Tail(order),
                         [acc EXCEPT !.items = Put(@, n, ch[n].Output_Resources)])

\* the end of one pass of the while loop of run(), and the code after the loop
RunPassEnd ==
  /\ pc = "run"
  /\ call.idx > Len(call.outstanding)
  /\ IF NoProgress(call.run_processes)
     THEN /\ RunReturns("error", "DeadEnd", call.dt)
          /\ UNCHANGED <<chain, plant>>
     ELSE LET rest == Remaining(call.outstanding, call.run_processes)
          IN  IF \E i \in 1..Len(rest) : ~links[rest[i]].From.some
              THEN /\ RunReturns("error", "TypeError", call.dt)
                   /\ UNCHANGED <<chain, plant>>
              ELSE /\ chain' = [n \in Names(defs) |->
                                 IF InSeq(n, rest)
                                 THEN [chain[n] EXCEPT !.Ready = AllRun(chain, links[n].From.items)]
                                 ELSE chain[n]]
                   /\ IF rest = <<>>
                      THEN LET ov == Overages(chain, model, defs.order, [err |-> "", items |-> <<>>])
                           IN  IF ov.err # ""
                               THEN /\ RunReturns("error", ov.err, call.dt)
                                    /\ plant' = [plant EXCEPT !.overages = ov.items]
                               ELSE /\ RunReturns("ok", "", call.dt)
                                    /\ plant' = [plant EXCEPT !.overages = ov.items,
                                                   !.actual_power = Div(plant.actual_energy, call.dt)]
                      ELSE /\ call' = [call EXCEPT !.outstanding = rest, !.idx = 1,
                                                   !.run_processes = <<>>, !.passes = @ + 1]
                           /\ UNCHANGED <<pc, plant, last, hist>>
  /\ UNCHANGED <<defs, links, model, u>>

Setup == \E req \in SetupRequests(defs), dt \in DeltaTs : SetupStart(req, dt)
RunCall == \E dt \in DeltaTs : RunStart(dt)

Next ==
  \/ Construct
  \/ Setup
  \/ SetupStep
  \/ SetupPassEnd
  \/ RunCall
  \/ RunStep
  \/ RunPassEnd

Spec == Init /\ [][Next]_vars


(***************************************************************************)
(* A node on its own: request() and run() called directly on a Process,    *)
(* a Multiplex or a depot, as the plant calls them                          *)
(***************************************************************************)
\* Mars_Regolith -> Mars_Metal_Alloy + Mars_Slag at equal rates (the solid products of
\* a reduction step; what is consumed and what is produced do not balance)
Reducer == Ambient("Process", FALSE, <<Solid("Mars_Regolith", Q(3))>>,
                   <<Solid("Mars_Metal_Alloy", Q(1)), Solid("Mars_Slag", Q(1))>>, Q(2))
\* anything solid -> Mars_Metal_Alloy
Bagger == Ambient("Process", FALSE, <<Solid("ANY", Q(1))>>,
                  <<Solid("Mars_Metal_Alloy", Q(1))>>, Q(5))
\* units of Water -> Mars_Slag at 3/4 kg/s each
UnitBank == Ambient("Multiplex", FALSE, <<Solid("Water", Frac(3, 4))>>,
                    <<Solid("Mars_Slag", Frac(3, 4))>>, Q(10))

\* a depot of Water and Mars_Regolith in equal parts that wants 1 kg, and one of
\* Mars_Slag alone that wants 2 kg
MixBin == DepotCfg(<<Entry("Water", Frac(1, 2)), Entry("Mars_Regolith", Frac(1, 2))>>,
                   "SOLID", NoneQ, NoneQ, Q(1))
SlagBin == DepotCfg(<<Entry("Mars_Slag", Q(1))>>, "SOLID", NoneQ, NoneQ, Q(2))

\* anything solid, declared before liquid Water -> Mars_Slag
Blender == Ambient("Process", FALSE, <<Solid("ANY", Q(1)), Component("Water", "LIQUID", Q(1))>>,
                   <<Solid("Mars_Slag", Q(1))>>, Q(0))

\* processes.py Water_Sublimation, at 1 kg/s: solid Water -> Water vapour at 873.15 K
Water_Sublimation ==
  ProcessCfg("Process", FALSE, <<Solid("Water", Q(1))>>, <<Component("Water", "GAS", Q(1))>>,
             Q(0), Frac(87315, 100), MarsPressure)

\* a deposit of one part Water in three parts Mars_Regolith
WetRegolith == SolidDeposit(<<Entry("Water", Frac(1, 4)), Entry("Mars_Regolith", Frac(3, 4))>>)

UnitNodes ==
  {Smelter, Reducer, Bagger, UnitBank, MixBin, SlagBin, Blender, Water_Sublimation, WetRegolith}
UnitKinds == <<"Water", "Mars_Regolith", "Mars_Slag", "Mars_Metal_Alloy">>
UnitMasses == {Q(50 * k) : k \in 0..MaxUnitMass}

\* a solid resource at ambient conditions
Lump(kind, mass) == New(kind, mass, MarsTemperature, MarsPressure, "SOLID").r

\* the resource dicts handed to a node: none, one or two kinds
Bundles ==
  {<<>>}
    \cup {<<Entry(UnitKinds[i], Lump(UnitKinds[i], m))>> : i \in 1..Len(UnitKinds), m \in UnitMasses}
    \cup {<<Entry(UnitKinds[ij[1]], Lump(UnitKinds[ij[1]], mm[1])),
            Entry(UnitKinds[ij[2]], Lump(UnitKinds[ij[2]], mm[2]))>> :
            ij \in {x \in (1..Len(UnitKinds)) \X (1..Len(UnitKinds)) : x[1] < x[2]},
            mm \in UnitMasses \X UnitMasses}

UnitStart(cfg, dt, D) ==
  [stage |-> "init", asked |-> 0, cfg |-> cfg, dt |-> dt, D |-> D, st |-> InitModel(cfg),
   err |-> "",
   R |-> Absent, inp |-> Absent, out |-> Absent,
   produced |-> <<>>, removed |-> <<>>, kept |-> <<>>]

InitUnit ==
  /\ defs = PlantLone
  /\ pc = "unit"
  /\ links = [n \in Names(defs) |-> [From |-> defs.From[n], To |-> Absent]]
  /\ chain = [n \in Names(defs) |-> NoScratch]
  /\ model = [n \in Names(defs) |-> InitModel(defs.Model[n])]
  /\ plant = NoPlant
  /\ call = NoCall
  /\ last = NoLast
  /\ hist = NoHist
  /\ u \in {UnitStart(cfg, dt, D) : cfg \in UnitNodes, dt \in DeltaTs, D \in Bundles}

\* node.request(dt, D)
UnitRequest ==
  /\ pc = "unit" /\ u.stage = "init"
  /\ LET res == Request(u.cfg, u.st, u.dt, Present(u.D))
     IN  u' = [u EXCEPT !.stage = "requested", !.st = res.st, !.err = res.err, !.R = res.out]
  /\ UNCHANGED <<defs, pc, links, chain, model, plant, call, last, hist>>

\* node.request(dt, None), which may be called again on the same node
UnitRequestNone ==
  /\ pc = "unit" /\ u.stage \in {"init", "asked"} /\ u.asked < MaxAsks /\ u.err = ""
  /\ LET res == Request(u.cfg, u.st, u.dt, Absent)
     IN  u' = [u EXCEPT !.stage = "asked", !.asked = @ + 1, !.st = res.st, !.err = res.err,
                         !.R = res.out]
  /\ UNCHANGED <<defs, pc, links, chain, model, plant, call, last, hist>>

\* what a run() call leaves in the record
UnitRan(stage, inp, res) ==
  [u EXCEPT !.stage = stage, !.st = res.st, !.err = res.err, !.inp = inp, !.out = res.out,
            !.produced = res.produced, !.removed = res.removed, !.kept = res.kept]

\* node.run(dt, R) on exactly what request() returned
UnitRunRequested ==
  /\ pc = "unit" /\ u.stage = "requested" /\ u.err = ""
  /\ u' = UnitRan("roundtrip", u.R, Run(u.cfg, u.st, u.dt, u.R))
  /\ UNCHANGED <<defs, pc, links, chain, model, plant, call, last, hist>>

\* node.run(dt, inputs) on a bundle of inputs
UnitRunDirect ==
  /\ pc = "unit" /\ u.stage = "init"
  /\ u' = UnitRan("ran", Present(u.D), Run(u.cfg, u.st, u.dt, Present(u.D)))
  /\ UNCHANGED <<defs, pc, links, chain, model, plant, call, last, hist>>

NextUnit == UnitRequest \/ UnitRequestNone \/ UnitRunRequested \/ UnitRunDirect

SpecUnit == InitUnit /\ [][NextUnit]_vars

(***************************************************************************)
(* Properties of the plant-level calls                                     *)
(***************************************************************************)
\* the nodes with a link into one of the nodes of S
Preds(d, S) == {p \in Names(d) : \E n \in S : InSeq(p, d.From[n].items)}

\* every node from which a node of S can be reached over at least one link
RECURSIVE UpstreamOf(_, _, _)
UpstreamOf(d, S, k) == IF k = 0 THEN {} ELSE Preds(d, S) \cup UpstreamOf(d, Preds(d, S), k - 1)
Upstream(d, n) == UpstreamOf(d, {n}, Len(d.order))

HasCycle(d) == \E n \in Names(d) : n \in Upstream(d, n)

\* node p can emit kind k: a deposit holding it, or a process producing it
Emits(d, p, k) ==
  IF d.Model[p].Type = "Deposit" THEN Has(d.Model[p].Fractions, k)
  ELSE IF d.Model[p].Type = "Depot" THEN FALSE
  ELSE Has(d.Model[p].Outputs, k)

\* a depot whose composition names a kind nothing upstream of it can emit
Undeliverable(d) ==
  \E n \in Names(d) : /\ d.Model[n].Type = "Depot"
                      /\ \E i \in 1..Len(d.Model[n].Fractions) :
                           \A p \in Upstream(d, n) : ~Emits(d, p, d.Model[n].Fractions[i].k)

SetupDone(status) == pc = "idle" /\ last.op = "setup" /\ last.status = status
RunDone(status) == pc = "idle" /\ last.op = "run" /\ last.status = status

\* the most recent setup() was setup({Depot: 100 kg}, 100 s) on the three-node chain
C1_Scenario ==
  /\ defs = PlantChain
  /\ hist.cur.valid /\ hist.cur.req = <<Entry("Depot", Q(100))>> /\ hist.cur.dt = Q(100)

\* C1: on Deposit{A 0.5, B 0.5} -> Process(1 kg/s A + 1 kg/s B -> 2 kg/s C) -> Depot{C 1.0},
\* setup({Depot: 100 kg}, 100 s) completes and resolves the deposit to 0.5 kg/s of each
\* kind, and a run(100 s) that follows leaves Contents = {C: 100 kg} (relative tolerance
\* 1e-5) and an empty Overage at the depot.
C1_Chain ==
  /\ (C1_Scenario /\ pc = "idle" /\ last.op = "setup") =>
        /\ last.status = "ok"
        /\ \A i \in 1..Len(MixDeposit.Fractions) :
             Mul(model["Dep"].output_rate, MixDeposit.Fractions[i].v) = Frac(1, 2)
  /\ (C1_Scenario /\ pc = "idle" /\ last.op = "run" /\ last.dt = Q(100)) =>
        /\ last.status = "ok"
        /\ model["Depot"].Contents.some
        /\ Keys(model["Depot"].Contents.items) = {"Mars_Slag"}
        /\ Within(Get(model["Depot"].Contents.items, "Mars_Slag").Mass, Q(100), ZERO_TOL)
        /\ model["Depot"].Overage = Present(<<>>)
        /\ plant.overages = <<Entry("Depot", Present(<<>>))>>

C1_Witness ==
  /\ C1_Scenario /\ RunDone("ok") /\ last.dt = Q(100)
  /\ model["Depot"].Contents.some
  /\ Has(model["Depot"].Contents.items, "Mars_Slag")

\* C2 (as stated): run() returns normally only if the most recent setup() completed
\* without raising; with no setup(), or after a setup() that raised, run() raises.
C2_RunNeedsSetup ==
  RunDone("ok") => (hist.cur.valid /\ hist.cur.status = "ok")

\* C3: two consecutive setup() calls with the same requested outputs and the same
\* delta_t, no run() in between, leave the same projected energy and the same rate at
\* every deposit.
C3_SetupIdempotent ==
  (/\ pc = "idle" /\ hist.prev.valid /\ hist.cur.valid /\ ~hist.runBetween
   /\ hist.prev.req = hist.cur.req /\ hist.prev.dt = hist.cur.dt)
  => (/\ hist.cur.status = hist.prev.status
      /\ hist.cur.energy = hist.prev.energy
      /\ hist.cur.rates = hist.prev.rates)

C3_Witness ==
  /\ pc = "idle" /\ hist.prev.valid /\ hist.cur.valid /\ ~hist.runBetween
  /\ hist.prev.req = hist.cur.req /\ hist.prev.dt = hist.cur.dt
  /\ hist.prev.status = "ok" /\ hist.cur.status = "ok"
  /\ ~IsZero(hist.cur.energy)

\* some node of the definitions names a predecessor that is no node
NamesUnknown(d) ==
  \E n \in Names(d) : \E i \in 1..Len(d.From[n].items) : d.From[n].items[i] \notin Names(d)

\* C4: when a node names a predecessor that is not a key of the definitions, the
\* constructor raises: no plant exists, so no setup() or run() is ever started.
C4_UnknownPredecessor ==
  NamesUnknown(defs) =>
    /\ pc \in {"new", "dead"}
    /\ (pc = "dead" => last.op = "construct" /\ last.status = "error")
    /\ hist.calls = 0

C4_Witness == NamesUnknown(defs) /\ pc = "dead" /\ last.err = "ValueError"

\* C5 (as stated): in every topology where a depot's composition names a kind that no
\* upstream process produces and no upstream deposit holds, setup() raises.
C5_UndeliverableRaises ==
  Undeliverable(defs) => ~SetupDone("ok")

\* C6: on a topology with a directed cycle setup() and run() both end by raising after
\* at most one pass per node plus the pass that finds nothing ready: neither loops on
\* and neither returns normally.
C6_CycleRaises ==
  HasCycle(defs) =>
    /\ last.op \in {"setup", "run"} => last.status # "ok"
    /\ call.passes <= Len(defs.order) + 1

C6_Witness ==
  /\ HasCycle(defs) /\ RunDone("error") /\ last.err = "DeadEnd"
  /\ hist.cur.valid /\ hist.cur.status = "error"

\* C7: when setup() returns without raising, every deposit of the topology holds a
\* rate (none is left unset).
C7_DepositsResolved ==
  SetupDone("ok") =>
    \A n \in Names(defs) : defs.Model[n].Type = "Deposit" => ~IsNone(model[n].output_rate)

C7_Witness ==
  /\ SetupDone("ok")
  /\ \E n \in Names(defs) : defs.Model[n].Type = "Deposit" /\ ~IsZero(model[n].output_rate)


(***************************************************************************)
(* Properties of one node's request() and run()                            *)
(***************************************************************************)
RECURSIVE SumVals(_)
SumVals(d) == IF d = <<>> THEN Q(0) ELSE Add(d[1].v, SumVals(Tail(d)))

MassOf(d, k) == IF Has(d, k) THEN Get(d, k).Mass ELSE Q(0)

\* run() was called on a bundle that holds every input of a transform without
\* wildcard in at least the mass one step consumes, and it returned
RanSufficient ==
  /\ u.stage = "ran" /\ u.err = ""
  /\ u.cfg.Type = "Process" /\ ~HasAny(u.cfg)
  /\ \A i \in 1..Len(u.cfg.Inputs) :
       /\ Has(u.D, u.cfg.Inputs[i].k)
       /\ Le(Mul(u.dt, u.cfg.Inputs[i].v.Rate), Get(u.D, u.cfg.Inputs[i].k).Mass)

\* C8 (as stated): after run() on sufficient inputs of a transform without wildcard,
\* sum(output masses) + sum(masses deducted) = sum(original input masses) within 1e-5,
\* whether "output masses" means all returned resources or the produced ones only.
C8_OutputsPlusDeducted ==
  RanSufficient =>
    \/ Within(Add(SumMass(u.out.items), SumVals(u.removed)), SumMass(u.D), ZERO_TOL)
    \/ Within(Add(SumMass(u.produced), SumVals(u.removed)), SumMass(u.D), ZERO_TOL)

\* the mass run() left in the input of kind k (nothing when the input was dropped as
\* used up, in which case a returned resource of that name is the produced one)
LeftIn(k) ==
  IF Has(u.produced, k) /\ Get(u.out.items, k) = Get(u.produced, k) THEN Q(0)
  ELSE MassOf(u.out.items, k)

\* C8 (amended): after run() on sufficient inputs of a transform without wildcard, for
\* every consumed kind the mass deducted is dt x input rate, and the mass left in that
\* input plus the mass deducted equals its original mass within 1e-5; every produced
\* kind has mass dt x output rate, whatever was deducted.
C8_InputBalance ==
  RanSufficient =>
    /\ \A i \in 1..Len(u.cfg.Inputs) :
         LET k == u.cfg.Inputs[i].k
         IN  /\ Has(u.removed, k)
             /\ Get(u.removed, k) = Mul(u.dt, u.cfg.Inputs[i].v.Rate)
             /\ Within(Add(LeftIn(k), Get(u.removed, k)), Get(u.D, k).Mass, ZERO_TOL)
    /\ \A i \in 1..Len(u.cfg.Outputs) :
         /\ Has(u.produced, u.cfg.Outputs[i].k)
         /\ Get(u.produced, u.cfg.Outputs[i].k).Mass = Mul(u.dt, u.cfg.Outputs[i].v.Rate)

\* an input is left over in part, and what is produced differs from what is deducted
C8_Witness ==
  /\ RanSufficient
  /\ \E i \in 1..Len(u.cfg.Inputs) : ~IsZero(LeftIn(u.cfg.Inputs[i].k))
  /\ SumMass(u.produced) # SumVals(u.removed)

\* run() was called on exactly what request(dt, D) returned
RoundTrip == u.stage = "roundtrip"

Produced(k) == Has(u.cfg.Outputs, k)
Consumed(k) == Has(u.cfg.Inputs, k)

\* C9 (as stated): request(dt, D) accepted, then run(dt, R) on the returned requirement
\* yields, for every kind of D, the mass requested in D within 1e-5.
C9_RoundTripEqual ==
  (RoundTrip /\ u.cfg.Type = "Process") =>
    /\ u.err = ""
    /\ \A i \in 1..Len(u.D) :
         /\ Has(u.out.items, u.D[i].k)
         /\ Within(Get(u.out.items, u.D[i].k).Mass, u.D[i].v.Mass, ZERO_TOL)

\* D asks a positive mass of some produced kind
AsksProduct == \E i \in 1..Len(u.D) : Produced(u.D[i].k) /\ ~IsZero(u.D[i].v.Mass)

\* C9 (amended): for a transform without wildcard input and a D that names no consumed
\* kind, request(dt, D) accepted and then run(dt, R): if D asks a positive mass of a
\* produced kind, run returns for every produced kind of D at least the requested mass,
\* exactly the requested mass for one of them, and every other kind of D unchanged;
\* if D asks no positive mass of a produced kind, run raises ZeroDivisionError.
C9_RoundTripCovers ==
  (/\ RoundTrip /\ u.cfg.Type \in {"Process", "Multiplex"} /\ ~HasAny(u.cfg)
   /\ \A i \in 1..Len(u.D) : ~Consumed(u.D[i].k))
  => IF AsksProduct
     THEN /\ u.err = ""
          /\ \A i \in 1..Len(u.D) :
               /\ Has(u.out.items, u.D[i].k)
               /\ IF Produced(u.D[i].k)
                  THEN Le(u.D[i].v.Mass, Get(u.out.items, u.D[i].k).Mass)
                  ELSE Get(u.out.items, u.D[i].k).Mass = u.D[i].v.Mass
          /\ \E i \in 1..Len(u.D) :
               /\ Produced(u.D[i].k)
               /\ Within(Get(u.out.items, u.D[i].k).Mass, u.D[i].v.Mass, ZERO_TOL)
     ELSE u.err = "ZeroDivisionError"

\* two produced kinds asked in a proportion the transform does not make
C9_Witness ==
  /\ RoundTrip /\ ~HasAny(u.cfg) /\ u.err = ""
  /\ \A i \in 1..Len(u.D) : ~Consumed(u.D[i].k)
  /\ \E i, j \in 1..Len(u.D) :
       /\ Produced(u.D[i].k) /\ Produced(u.D[j].k)
       /\ Get(u.out.items, u.D[i].k).Mass = u.D[i].v.Mass
       /\ Lt(u.D[j].v.Mass, Get(u.out.items, u.D[j].k).Mass)

\* request() was called on a Multiplex with a D of produced kinds only
BankAsked ==
  /\ u.stage = "requested" /\ u.cfg.Type = "Multiplex"
  /\ u.D # <<>> /\ \A i \in 1..Len(u.D) : Produced(u.D[i].k)

\* one unit's maximum output of kind k at dt
UnitCapacity(k) == Mul(u.dt, Get(u.cfg.Outputs, k).Rate)

\* r: max over the requested kinds of requested mass / one unit's maximum output
RECURSIVE DemandRatio(_)
DemandRatio(i) ==
  IF i > Len(u.D) THEN Q(0)
  ELSE MaxQ(Div(u.D[i].v.Mass, UnitCapacity(u.D[i].k)), DemandRatio(i + 1))

\* C10 (as stated): for every r >= 0 Multiplex.request sets the unit count to ceil(r) and
\* hands the wrapped Process requested mass / unit count, which is within one unit's
\* capacity, so the call returns.
C10_UnitCount ==
  BankAsked =>
    /\ u.st.num_mocks = Ceil(DemandRatio(1))
    /\ u.err = ""
    /\ \A i \in 1..Len(u.D) :
         Le(Div(u.D[i].v.Mass, Q(u.st.num_mocks)), UnitCapacity(u.D[i].k))

(***************************************************************************)
(* Properties of the boundary nodes inside a run()                         *)
(***************************************************************************)
\* resource r is what deposit n emits for a kind of fraction frac in the present run()
EmittedBy(n, r, frac) ==
  /\ r.Mass = Mul(Mul(last.dt, model[n].output_rate), frac)
  /\ r.Phase = defs.Model[n].Phase
  /\ r.Temperature = defs.Model[n].Temperature

\* C11 (as stated): a deposit that runs after a rate was resolved emits exactly its
\* composition kinds, each with mass delta_t * rate * fraction at the deposit's phase,
\* temperature and pressure, and nothing for any other kind.
C11_DepositEmits ==
  last.op = "run" =>
    \A i \in 1..Len(plant.input_consumed) :
      LET n == plant.input_consumed[i].k
          out == plant.input_consumed[i].v
          fr == defs.Model[n].Fractions
      IN  /\ out.some
          /\ KeyList(out.items) = KeyList(fr)
          /\ \A j \in 1..Len(fr) :
               /\ EmittedBy(n, out.items[j].v, fr[j].v)
               /\ out.items[j].v.Pressure = defs.Model[n].Pressure

(***************************************************************************)
(* Properties of a depot's run() on a bundle of inputs                     *)
(***************************************************************************)
\* the depot ran on a bundle holding every composition kind
DepotRan == u.stage = "ran" /\ u.cfg.Type = "Depot"
            /\ \A i \in 1..Len(u.cfg.Fractions) : Has(u.D, u.cfg.Fractions[i].k)

\* min over the composition kinds of available mass / fraction
RECURSIVE MinTotal(_, _)
MinTotal(fr, D) ==
  IF Len(fr) = 1 THEN Div(Get(D, fr[1].k).Mass, fr[1].v)
  ELSE MinQ(Div(Get(D, fr[1].k).Mass, fr[1].v), MinTotal(Tail(fr), D))

\* Contents and Overage are what a stored total of T leaves of bundle D
StoredAt(T) ==
  /\ u.err = ""
  /\ u.st.Contents.some /\ u.st.Overage.some
  /\ \A i \in 1..Len(u.cfg.Fractions) :
       LET k == u.cfg.Fractions[i].k
           share == Mul(u.cfg.Fractions[i].v, T)
           rest == Sub(Get(u.D, k).Mass, share)
       IN  /\ Has(u.st.Contents.items, k)
           /\ Get(u.st.Contents.items, k).Mass = share
           /\ IF IsZero(rest) THEN ~Has(u.st.Overage.items, k)
              ELSE Has(u.st.Overage.items, k) /\ Get(u.st.Overage.items, k).Mass = rest
  /\ \A j \in 1..Len(u.D) :
       ~Has(u.cfg.Fractions, u.D[j].k) =>
         Has(u.st.Overage.items, u.D[j].k) /\ Get(u.st.Overage.items, u.D[j].k) = u.D[j].v
  /\ Keys(u.st.Contents.items) = Keys(u.cfg.Fractions)

\* C12 (as stated): for all input masses and all required total masses, a depot's run()
\* stores fraction[k] * T of every composition kind k, T being the min over the
\* composition kinds of available mass / fraction, and puts the remainder of every
\* composition kind and every other kind entirely into Overage.
C12_DepotLimiting == DepotRan => StoredAt(MinTotal(u.cfg.Fractions, u.D))

(***************************************************************************)
(* Properties of the order of the passes and of what setup() hands a depot *)
(***************************************************************************)
\* some node names a depot as its predecessor
DepotFeeds(d) ==
  \E n \in Names(d) : \E i \in 1..Len(d.From[n].items) :
    d.From[n].items[i] \in Names(d) /\ d.Model[d.From[n].items[i]].Type = "Depot"

\* C13: in a topology in which some node declares a depot as its predecessor, no
\* setup() completes: the depot is handed a desired-output argument and raises.
C13_DepotTerminal == DepotFeeds(defs) => ~SetupDone("ok")

C13_Witness ==
  /\ DepotFeeds(defs) /\ SetupDone("error") /\ last.err = "UnexpectedRequest"
  /\ \E n \in Names(defs) : defs.Model[n].Type = "Depot" /\ ~IsNone(model[n].request_mass)

\* node n's output pool still holds something
Unclaimed(n) == chain[n].Output_Resources.some /\ chain[n].Output_Resources.items # <<>>

\* the overage report carries what is left in n's output pool
Reported(n) == Has(plant.overages, n) /\ Get(plant.overages, n) = chain[n].Output_Resources

\* C14 (as stated): when run() completes, the overage report holds the Overage of every
\* depot and every resource still unclaimed in the output pool of any node.
C14_OveragesComplete ==
  RunDone("ok") =>
    \A n \in Names(defs) :
      /\ defs.Model[n].Type = "Depot" =>
           Has(plant.overages, n) /\ Get(plant.overages, n) = model[n].Overage
      /\ Unclaimed(n) => Reported(n)

\* C14 (amended): when run() completes, the overage report holds the Overage of every
\* depot and what is left in the output pool of every node that is neither a depot
\* nor a deposit; what is left in a deposit's pool is not reported.
C14_OveragesButDeposits ==
  RunDone("ok") =>
    \A n \in Names(defs) :
      /\ defs.Model[n].Type = "Depot" =>
           Has(plant.overages, n) /\ Get(plant.overages, n) = model[n].Overage
      /\ (Unclaimed(n) /\ defs.Model[n].Type # "Deposit") => Reported(n)
      /\ defs.Model[n].Type = "Deposit" => ~Has(plant.overages, n)

\* a run() after a completed setup() that leaves mass in a process's pool
C14_Witness ==
  /\ RunDone("ok") /\ hist.cur.valid /\ hist.cur.status = "ok"
  /\ \E n \in Names(defs) :
       /\ defs.Model[n].Type \in {"Process", "Multiplex"} /\ Unclaimed(n) /\ Reported(n)
       /\ \E i \in 1..Len(chain[n].Output_Resources.items) :
            ~IsZero(chain[n].Output_Resources.items[i].v.Mass)
  /\ \E n \in Names(defs) : defs.Model[n].Type = "Depot" /\ Has(plant.overages, n)

(***************************************************************************)
(* Properties of the duty cycle a run() records                            *)
(***************************************************************************)
\* run() was called on a Process or a Multiplex
UnitExecuted == u.stage \in {"ran", "roundtrip"} /\ u.cfg.Type \in {"Process", "Multiplex"}

\* min over the transform's input kinds of (mass handed in / units) / (rate * dt)
RECURSIVE MinShare(_, _, _, _)
MinShare(ins, items, dt, units) ==
  LET share == Div(Div(Get(items, ins[1].k).Mass, Q(units)), Mul(ins[1].v.Rate, dt))
  IN  IF Len(ins) = 1 THEN share ELSE MinQ(share, MinShare(Tail(ins), items, dt, units))

InUnitRange(q) == Le(Q(0), q) /\ Le(q, Q(1))

\* C15 (as stated): after a run() of a Process or a Multiplex the duty cycle lies in
\* [0, 1], and for a transform without wildcard input it is the min over the consumed
\* kinds of available mass / (rate * dt), capped at 1, the available mass being the
\* mass handed to run().
C15_DutyOfAvailable ==
  UnitExecuted =>
    /\ InUnitRange(u.st.duty_cycle)
    /\ (u.err = "" /\ ~HasAny(u.cfg)) =>
         u.st.duty_cycle = MinQ(Q(1), MinShare(u.cfg.Inputs, u.inp.items, u.dt, 1))

\* C15 (amended): the same with the available mass of a Multiplex taken per unit, i.e.
\* the mass handed to run() divided by the unit count the run settled on.
C15_DutyPerUnit ==
  UnitExecuted =>
    /\ InUnitRange(u.st.duty_cycle)
    /\ (u.err = "" /\ ~HasAny(u.cfg)) =>
         u.st.duty_cycle =
           MinQ(Q(1), MinShare(u.cfg.Inputs, u.inp.items, u.dt,
                               IF u.cfg.Type = "Multiplex" THEN u.st.num_mocks ELSE 1))

\* a Multiplex that ran several units below their capacity, and was not handed a
\* whole number of unit loads
C15_Witness ==
  /\ UnitExecuted /\ u.stage = "ran" /\ u.err = "" /\ u.cfg.Type = "Multiplex"
  /\ u.st.num_mocks > 1
  /\ Lt(Q(0), u.st.duty_cycle) /\ Lt(u.st.duty_cycle, Q(1))

(***************************************************************************)
(* Properties of the order in which a pass visits the nodes                *)
(***************************************************************************)
\* the nodes that declare n as a predecessor, and the predecessors n declares
Successors(d, n) == {s \in Names(d) : InSeq(n, d.From[s].items)}
Predecessors(d, n) == {p \in Names(d) : InSeq(p, d.From[n].items)}

\* the node the scheduling loop is about to call, if it is at a ready node
AtReady(op) ==
  /\ pc = op /\ call.idx <= Len(call.outstanding)
  /\ chain[call.outstanding[call.idx]].Ready

\* every node of log is preceded in log by all the nodes first(n) names
Ordered(log, first(_)) ==
  \A i \in 1..Len(log) : \A s \in first(log[i]) : \E j \in 1..(i - 1) : log[j] = s

\* log holds every node of the topology exactly once
EachOnce(log) ==
  /\ Len(log) = Cardinality(Names(defs))
  /\ \A n \in Names(defs) : \E i \in 1..Len(log) : log[i] = n

\* C16: within one setup(), request() is called on a node only after it was called on
\* every successor of the node, and a setup() that completes has called it on every
\* node exactly once.
C16_SetupOrder ==
  /\ AtReady("setup") =>
       \A s \in Successors(defs, call.outstanding[call.idx]) : InSeq(s, call.called)
  /\ pc = "setup" => Ordered(call.called, LAMBDA n : Successors(defs, n))
  /\ SetupDone("ok") =>
       EachOnce(last.called) /\ Ordered(last.called, LAMBDA n : Successors(defs, n))

\* a completed setup() of a topology with a fork, the producer called last of its
\* successors' side
C16_Witness ==
  /\ SetupDone("ok") /\ Len(last.called) >= 4
  /\ \E n \in Names(defs) : Cardinality(Successors(defs, n)) > 1

\* C17: within one run(), run() is called on a node only after it was called on every
\* predecessor the node declares, and a run() that completes has called it on every
\* node exactly once.
C17_RunOrder ==
  /\ AtReady("run") =>
       \A p \in Predecessors(defs, call.outstanding[call.idx]) : InSeq(p, call.called)
  /\ pc = "run" => Ordered(call.called, LAMBDA n : Predecessors(defs, n))
  /\ RunDone("ok") =>
       EachOnce(last.called) /\ Ordered(last.called, LAMBDA n : Predecessors(defs, n))

\* a completed run() of a topology of four nodes in which two nodes declare the same
\* predecessor
C17_Witness ==
  /\ RunDone("ok") /\ EachOnce(last.called) /\ Len(last.called) >= 4
  /\ \E n, m \in Names(defs) :
       n # m /\ Predecessors(defs, n) \cap Predecessors(defs, m) # {}

(***************************************************************************)
(* Properties of a depot's request()                                       *)
(***************************************************************************)
\* request(dt, None) has been called k times on a depot that holds a required mass
DepotAsked(k) == u.stage = "asked" /\ u.cfg.Type = "Depot" /\ u.asked = k

\* R asks for required mass * fraction of every composition kind and nothing else
AsksFractions(R) ==
  /\ R.some /\ KeyList(R.items) = KeyList(u.cfg.Fractions)
  /\ \A i \in 1..Len(u.cfg.Fractions) :
       R.items[i].v.Mass = Mul(u.st.request_mass, u.cfg.Fractions[i].v)

\* C18 (as stated): a depot's request() fails when it is invoked a second time on the
\* same depot.
C18_DepotRequestOnce == DepotAsked(2) => u.err # ""

\* C18 (amended): a depot's request() may be invoked again: every invocation without a
\* desired-output argument on a depot that holds a required mass succeeds and returns
\* required mass * fraction for every composition kind.
C18_DepotRequestRepeats ==
  \A k \in 1..(MaxAsks + 1) : DepotAsked(k) => (u.err = "" /\ AsksFractions(u.R))

C18_Witness == DepotAsked(2) /\ u.err = "" /\ AsksFractions(u.R) /\ Len(u.R.items) = 2

(***************************************************************************)
(* Properties of what run() hands a consumer out of its producers' pools   *)
(***************************************************************************)
\* node n has just been run inside the present run(): call.fed holds what it was
\* handed and the pools as they were before
JustRan(n) == pc = "run" /\ call.fed.n = n /\ call.fed.inp.some

KindsOf(wl) == {wl.items[i] : i \in 1..Len(wl.items)}

\* the kinds named in the Whitelist of a successor of up other than n
SiblingKinds(n, up) ==
  UNION {KindsOf(Whitelist(defs.Model[s])) : s \in Successors(defs, up) \ {n}}

\* of the pool up had, n was handed exactly the kinds of S, which left the pool, and
\* everything else is still in the pool as it was
TookOnly(n, up, S) ==
  LET pool == call.fed.before[up].items
  IN  /\ \A i \in 1..Len(pool) :
           IF pool[i].k \in S
           THEN /\ Has(call.fed.inp.items, pool[i].k)
                /\ (Cardinality(Predecessors(defs, n)) = 1 =>
                      Get(call.fed.inp.items, pool[i].k) = pool[i].v)
           ELSE Cardinality(Predecessors(defs, n)) = 1 => ~Has(call.fed.inp.items, pool[i].k)
      /\ chain[up].Output_Resources = Present(Without(pool, S))

\* C19: a filtered consumer is handed, from each predecessor, exactly the pool
\* resources whose kind its whitelist names; these leave the producer's pool and the
\* others stay there for a later sibling.
C19_FilteredTakesWhitelist ==
  \A n \in Names(defs) :
    (JustRan(n) /\ defs.Model[n].Filter) =>
      /\ \A up \in Predecessors(defs, n) : TookOnly(n, up, KindsOf(Whitelist(defs.Model[n])))
      /\ Keys(call.fed.inp.items) \subseteq KindsOf(Whitelist(defs.Model[n]))

\* a filtered consumer was handed something and left something else in the pool
C19_Witness ==
  \E n \in Names(defs) :
    /\ JustRan(n) /\ defs.Model[n].Filter /\ call.fed.inp.items # <<>>
    /\ \E up \in Predecessors(defs, n) :
         /\ chain[up].Output_Resources.items # <<>>
         /\ Len(chain[up].Output_Resources.items) < Len(call.fed.before[up].items)

\* C20: an unfiltered consumer whose predecessor has more than one successor is handed
\* exactly the pool resources whose kind no sibling's whitelist names; no kind a
\* whitelisted sibling claims reaches it, whether it runs before or after the sibling.
C20_UnfilteredTakesRest ==
  \A n \in Names(defs) :
    (JustRan(n) /\ ~defs.Model[n].Filter) =>
      \A up \in Predecessors(defs, n) :
        Cardinality(Successors(defs, up)) > 1 =>
          /\ TookOnly(n, up, Keys(call.fed.before[up].items) \ SiblingKinds(n, up))
          /\ Keys(call.fed.inp.items) \cap SiblingKinds(n, up) = {}

\* the unfiltered consumer ran before its filtered sibling and left it what it claims
C20_Witness ==
  \E n \in Names(defs) :
    /\ JustRan(n) /\ ~defs.Model[n].Filter /\ call.fed.inp.items # <<>>
    /\ \E up \in Predecessors(defs, n) : \E s \in Successors(defs, up) \ {n} :
         /\ defs.Model[s].Filter /\ ~InSeq(s, call.called)
         /\ Keys(chain[up].Output_Resources.items) \cap KindsOf(Whitelist(defs.Model[s])) # {}

(***************************************************************************)
(* Properties of the request setup() hands a node                          *)
(***************************************************************************)
\* node n has just been requested inside the present setup(): call.fed holds the
\* merged request it was handed and every node's Resource_Request as it was before
JustAsked(n) == pc = "setup" /\ call.fed.n = n /\ call.fed.inp.some

\* the successors of n, in the order of its 'To' list, that hold a request
Asking(n) ==
  SelectSeq(links[n].To.items, LAMBDA s : call.fed.before[s].some)

\* the merged request holds, for every kind some successor forwards, the request of the
\* last successor that forwards it, and nothing else; forwards(s, k) tells whether
\* successor s forwards the kind k of its request
MergedOf(n, forwards(_, _)) ==
  LET asking == Asking(n)
      Gives(j, k) == Has(call.fed.before[asking[j]].items, k) /\ forwards(asking[j], k)
  IN  /\ \A j \in 1..Len(asking) : \A k \in Keys(call.fed.before[asking[j]].items) :
           Gives(j, k) => Has(call.fed.inp.items, k)
      /\ \A k \in Keys(call.fed.inp.items) :
           \E j \in 1..Len(asking) :
             /\ Gives(j, k) /\ \A l \in (j + 1)..Len(asking) : ~Gives(l, k)
             /\ Get(call.fed.inp.items, k) = Get(call.fed.before[asking[j]].items, k)

\* C21 (as stated): the request a node is handed in setup() is the merge of its
\* successors' requests, a successor that declares a whitelist forwarding only the
\* kinds of its own whitelist and any other successor forwarding its whole request.
C21_ForwardsSuccessorWhitelist ==
  \A n \in Names(defs) :
    JustAsked(n) =>
      MergedOf(n, LAMBDA s, k : Whitelist(defs.Model[s]).some =>
                                  k \in KindsOf(Whitelist(defs.Model[s])))

\* C21 (amended): a successor that declares more than one predecessor forwards only
\* the kinds the requested node can produce (the node's own RequestWhitelist); a
\* successor with a single predecessor forwards its whole request.
C21_ForwardsProducible ==
  \A n \in Names(defs) :
    JustAsked(n) =>
      MergedOf(n, LAMBDA s, k : Len(links[s].From.items) > 1 =>
                                  k \in KindsOf(RequestWhitelist(defs.Model[n])))

\* a node was handed part of the request of a successor with two predecessors
C21_Witness ==
  \E n \in Names(defs) :
    /\ JustAsked(n) /\ call.fed.inp.items # <<>>
    /\ \E j \in 1..Len(Asking(n)) :
         /\ Len(links[Asking(n)[j]].From.items) > 1
         /\ Len(call.fed.inp.items) < Len(call.fed.before[Asking(n)[j]].items)

\* successors number j and l of Asking(n) both forward kind k to n (lines 120-125)
BothForward(n, j, l, k) ==
  \A x \in {j, l} :
    /\ Has(call.fed.before[Asking(n)[x]].items, k)
    /\ (Len(links[Asking(n)[x]].From.items) > 1 =>
          k \in KindsOf(RequestWhitelist(defs.Model[n])))

\* no successor of n after number l forwards kind k
LastToForward(n, l, k) ==
  \A x \in (l + 1)..Len(Asking(n)) : ~BothForward(n, x, x, k)

\* C27: when two successors of a node forward a request for the same kind, the merged
\* request the node is handed in setup() holds, for that kind, the request of the
\* successor that comes last in the node's successor list; the masses are not added.
C27_LastWriterWins ==
  \A n \in Names(defs) :
    JustAsked(n) =>
      \A j, l \in 1..Len(Asking(n)) : \A k \in Keys(call.fed.inp.items) :
        (j < l /\ BothForward(n, j, l, k) /\ LastToForward(n, l, k)) =>
          Get(call.fed.inp.items, k) = Get(call.fed.before[Asking(n)[l]].items, k)

\* the later successor asks for less than the earlier one and its request is the one
\* handed on
C27_Witness ==
  \E n \in Names(defs) :
    /\ JustAsked(n)
    /\ \E j, l \in 1..Len(Asking(n)) : \E k \in Keys(call.fed.inp.items) :
         /\ j < l /\ BothForward(n, j, l, k) /\ LastToForward(n, l, k)
         /\ Lt(Get(call.fed.before[Asking(n)[l]].items, k).Mass,
               Get(call.fed.before[Asking(n)[j]].items, k).Mass)
         /\ Get(call.fed.inp.items, k).Mass = Get(call.fed.before[Asking(n)[l]].items, k).Mass

(***************************************************************************)
(* Properties of the checks and results of a Process's run() and request() *)
(***************************************************************************)
\* run() was called on a Process (not through a Multiplex) with a dict of inputs
ProcessExecuted == u.stage = "ran" /\ u.cfg.Type = "Process"

\* some named input kind of the transform is missing from the inputs handed in, or is
\* there in another phase than the transform declares
NamedInputUnmet ==
  \E i \in 1..Len(u.cfg.Inputs) :
    /\ u.cfg.Inputs[i].k # "ANY"
    /\ (Has(u.D, u.cfg.Inputs[i].k) => Get(u.D, u.cfg.Inputs[i].k).Phase # u.cfg.Inputs[i].v.Phase)

\* C22 (as stated): a Process's run() raises whenever a named input kind of its
\* transform is missing or in the wrong phase, also when the transform declares a
\* wildcard input besides.
C22_NamedInputsChecked == (ProcessExecuted /\ NamedInputUnmet) => u.err # ""

\* request() was called on a Process with a dict of requests
ProcessAsked == u.stage = "requested" /\ u.cfg.Type = "Process"

\* the requests for kinds the transform produces
Targeted == Only(u.D, Keys(u.cfg.Outputs))

\* C23: a Process's request() raises when a kind it produces is requested in
\* another phase than it produces it in, or in a mass that exceeds rate x dt; requests
\* for kinds it does not produce cause no raise and are returned as they were given.
C23_RequestChecks ==
  ProcessAsked =>
    /\ (\E i \in 1..Len(Targeted) :
          \/ Targeted[i].v.Phase # Get(u.cfg.Outputs, Targeted[i].k).Phase
          \/ Lt(Mul(Get(u.cfg.Outputs, Targeted[i].k).Rate, u.dt), Targeted[i].v.Mass))
       => u.err # ""
    /\ Targeted = <<>> => u.err = ""
    /\ u.err = "" =>
         \A i \in 1..Len(u.D) :
           u.D[i].k \notin Keys(u.cfg.Outputs) =>
             Has(u.R.items, u.D[i].k) /\ Get(u.R.items, u.D[i].k) = u.D[i].v

\* a request for a producible mass of a produced kind and for a kind that is not
\* produced went through
C23_Witness ==
  /\ ProcessAsked /\ u.err = ""
  /\ \E i, j \in 1..Len(u.D) :
       /\ u.D[i].k \in Keys(u.cfg.Outputs) /\ ~IsZero(u.D[i].v.Mass)
       /\ u.D[j].k \in Keys(u.cfg.Inputs) /\ ~IsZero(u.D[j].v.Mass)

\* run() on a dict of inputs returned on a Process
ProcessReturned == ProcessExecuted /\ u.err = ""

\* C24 (as stated): what a Process's run() returns holds, for every output kind of
\* the transform, a resource in the output's phase of mass duty_cycle x rate x dt,
\* and every passthrough and leftover input, also when an output kind has the name
\* of an input kind.
C24_OutputsReturned ==
  ProcessReturned =>
    /\ \A i \in 1..Len(u.cfg.Outputs) :
         /\ Has(u.out.items, u.cfg.Outputs[i].k)
         /\ Get(u.out.items, u.cfg.Outputs[i].k).Phase = u.cfg.Outputs[i].v.Phase
         /\ Get(u.out.items, u.cfg.Outputs[i].k).Mass
              = Mul(Mul(u.st.duty_cycle, u.cfg.Outputs[i].v.Rate), u.dt)
    /\ \A i \in 1..Len(Passthrough(u.cfg, u.D)) :
         /\ Has(u.out.items, Passthrough(u.cfg, u.D)[i].k)
         /\ Get(u.out.items, Passthrough(u.cfg, u.D)[i].k).Mass = Passthrough(u.cfg, u.D)[i].v.Mass
    /\ \A i \in 1..Len(u.kept) :
         Lt(Get(u.removed, u.kept[i].k), u.kept[i].v.Mass) =>
           /\ Has(u.out.items, u.kept[i].k)
           /\ Get(u.out.items, u.kept[i].k).Mass
                = Sub(u.kept[i].v.Mass, Get(u.removed, u.kept[i].k))

\* the conditioning energy of the inputs the transform consumes, as configureInputs
\* charges it
ConsumedConditioning ==
  ConfigureInputs(u.cfg, Without(u.D, Keys(Passthrough(u.cfg, u.D))), 1,
                  [err |-> FALSE, energy |-> Q(0),
                   items |-> Without(u.D, Keys(Passthrough(u.cfg, u.D)))]).energy

\* C25 (as stated): a Process's run() conditions only the inputs its transform
\* consumes and charges energy_demand for those alone; a passthrough resource comes
\* back with the temperature, pressure and mass it was given.
C25_PassthroughUntouched ==
  ProcessReturned =>
    /\ \A i \in 1..Len(Passthrough(u.cfg, u.D)) :
         Passthrough(u.cfg, u.D)[i].k \notin Keys(u.cfg.Outputs) =>
           Get(u.out.items, Passthrough(u.cfg, u.D)[i].k) = Passthrough(u.cfg, u.D)[i].v
    /\ u.st.energy_demand
         = Add(ConsumedConditioning, Mul(Mul(u.dt, u.cfg.Power), u.st.duty_cycle))

\* the conditioning energy of everything handed in
GivenConditioning ==
  ConfigureInputs(u.cfg, u.D, 1, [err |-> FALSE, energy |-> Q(0), items |-> u.D])

\* C25 (amended): a Process's run() conditions every resource it is handed before it
\* sets the passthrough aside, and charges energy_demand for all of them; a
\* passthrough resource comes back with the mass and phase it was given, at the
\* temperature and pressure conditioning left it with.
C25_PassthroughConditioned ==
  ProcessReturned =>
    /\ \A i \in 1..Len(Passthrough(u.cfg, u.D)) :
         Passthrough(u.cfg, u.D)[i].k \notin Keys(u.cfg.Outputs) =>
           Get(u.out.items, Passthrough(u.cfg, u.D)[i].k)
             = Get(GivenConditioning.items, Passthrough(u.cfg, u.D)[i].k)
    /\ \A i \in 1..Len(Passthrough(u.cfg, u.D)) :
         /\ Get(GivenConditioning.items, Passthrough(u.cfg, u.D)[i].k).Mass
              = Passthrough(u.cfg, u.D)[i].v.Mass
         /\ Get(GivenConditioning.items, Passthrough(u.cfg, u.D)[i].k).Phase
              = Passthrough(u.cfg, u.D)[i].v.Phase
    /\ u.st.energy_demand
         = Add(GivenConditioning.energy, Mul(Mul(u.dt, u.cfg.Power), u.st.duty_cycle))

\* a process hotter than its surroundings returned a passthrough resource of some
\* mass: heated, and charged for
C25_Witness ==
  /\ ProcessReturned
  /\ \E i \in 1..Len(Passthrough(u.cfg, u.D)) :
       /\ Passthrough(u.cfg, u.D)[i].k \notin Keys(u.cfg.Outputs)
       /\ ~IsZero(Passthrough(u.cfg, u.D)[i].v.Mass)
       /\ Get(u.out.items, Passthrough(u.cfg, u.D)[i].k).Temperature
            # Passthrough(u.cfg, u.D)[i].v.Temperature
  /\ Lt(ConsumedConditioning, GivenConditioning.energy)

\* request() was called on a deposit with a dict of requests
DepositAsked == u.stage = "requested" /\ u.cfg.Type = "Deposit"

\* what the deposit emits of a kind in dt at the rate it stored
Yield(kind) == Mul(Mul(u.dt, u.st.output_rate), Get(u.cfg.Fractions, kind))

\* C26: a deposit's request() stores the largest of mass / (dt x fraction) over the
\* requested kinds as its rate, so that dt x rate x fraction covers every requested
\* mass and meets one of them exactly; it returns no upstream demand, and raises on
\* a kind outside its composition.
C26_DepositRate ==
  DepositAsked =>
    /\ (\E i \in 1..Len(u.D) : ~Has(u.cfg.Fractions, u.D[i].k)) => u.err # ""
    /\ u.err = "" =>
         /\ ~u.R.some
         /\ \A i \in 1..Len(u.D) : Le(u.D[i].v.Mass, Yield(u.D[i].k))
         /\ u.D # <<>> => \E i \in 1..Len(u.D) : u.D[i].v.Mass = Yield(u.D[i].k)

\* two kinds were requested in different masses, and one of them is over-supplied
C26_Witness ==
  /\ DepositAsked /\ u.err = "" /\ Len(u.D) = 2
  /\ \E i, j \in 1..Len(u.D) :
       /\ ~IsZero(u.D[i].v.Mass) /\ u.D[i].v.Mass = Yield(u.D[i].k)
       /\ ~IsZero(u.D[j].v.Mass) /\ Lt(u.D[j].v.Mass, Yield(u.D[j].k))

(***************************************************************************)
(* Properties of how run() shares a producer's resources out               *)
(***************************************************************************)
\* the <<producer, kind, consumer>> hand-overs of the run() in progress
Given == IF pc = "run" THEN call.fed.given ELSE {}

\* C28: at every point of a run(), no kind of a producer's pool has been handed to
\* two consumers, and a kind that was handed on is no longer in the producer's pool.
C28_HandedOnce ==
  \A a \in Given :
    /\ \A b \in Given : (a[1] = b[1] /\ a[2] = b[2]) => a[3] = b[3]
    /\ chain[a[1]].Output_Resources.some
    /\ ~Has(chain[a[1]].Output_Resources.items, a[2])

\* two consumers have each been handed a kind by the same producer
C28_Witness == \E a, b \in Given : a[1] = b[1] /\ a[3] # b[3]

\* the kinds producer up has handed to consumer n in the run() in progress
Received(up, n) == {a[2] : a \in {b \in Given : b[1] = up /\ b[3] = n}}

\* the kinds producer up put into its pool: those still there and those handed on
Emitted(up) == Keys(chain[up].Output_Resources.items) \cup {a[2] : a \in {b \in Given : b[1] = up}}

\* up has several consumers, at most one of them unfiltered, whose whitelists have no
\* kind in common
Shareable(up) ==
  /\ Cardinality(Successors(defs, up)) > 1
  /\ Cardinality({s \in Successors(defs, up) : ~defs.Model[s].Filter}) <= 1
  /\ \A s, t \in Successors(defs, up) :
       s # t => KindsOf(Whitelist(defs.Model[s])) \cap KindsOf(Whitelist(defs.Model[t])) = {}

\* the kinds of up that fall to consumer n, whatever the order of the definitions
Share(up, n) ==
  IF defs.Model[n].Filter THEN Emitted(up) \cap KindsOf(Whitelist(defs.Model[n]))
  ELSE Emitted(up) \ SiblingKinds(n, up)

\* C29: where a producer has several consumers, at most one unfiltered and with
\* disjoint whitelists, each consumer that has run was handed exactly its share of
\* what the producer emitted, and the pool holds what falls to no consumer that has
\* run: neither depends on the order in which the nodes were defined.
C29_SharesOrderFree ==
  \A up \in Names(defs) :
    (pc = "run" /\ chain[up].Run /\ chain[up].Output_Resources.some /\ Shareable(up)) =>
      /\ \A n \in Successors(defs, up) : chain[n].Run => Received(up, n) = Share(up, n)
      /\ Keys(chain[up].Output_Resources.items)
           = Emitted(up) \ UNION {Share(up, n) : n \in {s \in Successors(defs, up) : chain[s].Run}}

\* where a node stands in the definition order
Position(n) == CHOOSE i \in 1..Len(defs.order) : defs.order[i] = n

\* an unfiltered consumer defined before its filtered sibling: both have run and each
\* got its share
C29_Witness ==
  \E up \in Names(defs) :
    /\ pc = "run" /\ chain[up].Run /\ Shareable(up)
    /\ \E n, s \in Successors(defs, up) :
         /\ ~defs.Model[n].Filter /\ defs.Model[s].Filter /\ Position(n) < Position(s)
         /\ chain[n].Run /\ chain[s].Run
         /\ Received(up, n) # {} /\ Received(up, s) # {}

(***************************************************************************)
(* Properties of run() called again                                        *)
(***************************************************************************)
\* a run() has returned or raised, and the most recent setup() before it succeeded
RanAfterSetup == pc = "idle" /\ last.op = "run" /\ hist.cur.valid /\ hist.cur.status = "ok"

\* the call before that run() was a run() with the same dt
RanTwice == RanAfterSetup /\ hist.ran.valid /\ hist.ran.dt = last.dt

\* the run() left the depot Contents, overages and energy the run() before it left
SameYield ==
  /\ plant.output_produced = hist.ran.produced
  /\ plant.overages = hist.ran.overages
  /\ plant.actual_energy = hist.ran.energy

\* C30 (as stated): after a successful setup(), every run() of a row of run() calls
\* with one dt succeeds, and each leaves the depot Contents, overages and actual
\* energy of the one before.
C30_RunsSucceed ==
  /\ RanAfterSetup => last.status = "ok"
  /\ RanTwice => SameYield

====
